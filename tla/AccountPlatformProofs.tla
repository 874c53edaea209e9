----------------------- MODULE AccountPlatformProofs -----------------------
(***************************************************************************)
(* Proofs about the accounts' service, for any threads, passwords, bounds  *)
(* and faults: type correctness, that no device is left signed in at Oxy   *)
(* without a machine that holds it, that the calls never cost the machine  *)
(* its credential, that a kept token is the held credential's, and that an *)
(* account can be set up again.                                            *)
(***************************************************************************)
EXTENDS AccountPlatform, TLAPS

-----------------------------------------------------------------------------
(* What a thread at work remembers, and the locks it holds.                  *)

\* Stages by the kinds of calls that reach them.
Checks   == {"queued", "minting", "signing", "verifying", "rotating"}
Removes  == {"leaving", "shutting", "forgetting", "finishing", "unlisting"}
Setups   == {"enrolling", "committing", "storing", "settingUp"}
\* Stages that remember the credential they were asked with, and a new one.
Olds     == {"minting", "signing", "verifying", "rotating", "revoking", "mintingToken"}
News     == {"verifying", "rotating", "ending", "committing", "storing", "settingUp"}

\* A call at its stage: its kind, its password, and its credentials.
Shape(c, n) ==
    /\ c.at = "idle" => c = Idle
    /\ c.at = "checking" => c.kind = "check"
    /\ c.at \in {"spawned", "flagging"} => c.kind = "background"
    /\ c.at \in Checks => c.kind \in {"check", "background"}
    /\ c.at \in {"revoking", "locking"} => c.kind \in {"check", "background", "token"}
    /\ c.at \in {"asking", "mintingToken"} => c.kind = "token"
    /\ c.at = "ending" => c.kind \in {"check", "background", "setup"}
    /\ c.at \in Removes => c.kind = "remove"
    /\ c.at \in Setups => c.kind = "setup"
    /\ c.kind \in {"check", "background", "setup"} => c.password \in Passwords
    /\ c.at \in Olds => c.old \in 1..n
    /\ IF c.at \in News THEN c.new \in 1..n ELSE c.new = None
    /\ c.at \in {"enrolling", "committing"} => c.before = None
    /\ CredentialOf(c.before) \in 1..n \cup {None}

\* The account's calls and the machine's lock are held at these stages.
HoldsOnline(c) ==
    \/ c.at \in {"minting", "signing", "verifying", "rotating", "revoking", "locking",
                 "mintingToken", "shutting", "forgetting"}
    \/ c.at = "ending" /\ c.kind # "setup"
HoldsMachine(c) == c.at \in {"storing", "settingUp"}

Shapes == \A t \in Threads : Shape(calls[t], issued)
Locks  == \A t \in Threads : /\ onlineCalls = t <=> HoldsOnline(calls[t])
                             /\ machine = t <=> HoldsMachine(calls[t])
FileIssued == CredentialOf(file) \in 1..issued \cup {None}

TypeInv == TypeOK /\ Shapes /\ Locks /\ FileIssued

\* A thread's step to the call c, and what it does to the locks.
Stepped(t, c) ==
    /\ c \in Call /\ Goes(t, c) /\ Shape(c, issued')
    /\ IF HoldsOnline(c) THEN onlineCalls \in {None, t} /\ onlineCalls' = t
       ELSE onlineCalls' = IF onlineCalls = t THEN None ELSE onlineCalls
    /\ IF HoldsMachine(c) THEN machine \in {None, t} /\ machine' = t
       ELSE machine' = IF machine = t THEN None ELSE machine

\* What lies outside the calls is well typed, and credentials are not taken back.
Rest ==
    /\ oxyPassword \in Passwords /\ issued \in 0..MaxIssued /\ live \subseteq 1..issued
    /\ file \in Kept /\ user \in BOOLEAN /\ verifier \in Passwords \cup {None}
    /\ cached \in Credentials \cup {None}
    /\ made \in 0..MaxCalls /\ faults \in 0..MaxFaults
    /\ refused \subseteq Passwords /\ stray \subseteq 1..issued
    /\ FileIssued

\* Shapes outlive further issues.
LEMMA Shape_Kept ==
    ASSUME NEW c, NEW m \in Nat, NEW n \in Nat, m <= n, Shape(c, m)
    PROVE  Shape(c, n)
BY DEF Shape

\* A step of a thread to a shaped call, with its locks, keeps the types.
LEMMA Stepped_Type ==
    ASSUME AccountBounds, TypeInv, NEW t \in Threads, NEW c, Stepped(t, c),
           Rest', issued' \in Nat, issued <= issued'
    PROVE  TypeInv'
<1>1. calls \in [Threads -> Call] /\ c \in Call
  BY DEF TypeInv, TypeOK, Stepped
<1>2. calls' \in [Threads -> Call] /\ calls'[t] = c
  BY <1>1 DEF Stepped, Goes
<1>3. \A u \in Threads \ {t} : calls'[u] = calls[u]
  BY <1>1 DEF Stepped, Goes
<1>4. Shapes'
  <2>1. \A u \in Threads \ {t} : Shape(calls'[u], issued')
    <3> TAKE u \in Threads \ {t}
    <3>1. Shape(calls[u], issued) /\ issued \in Nat
      BY DEF TypeInv, Shapes, TypeOK, AccountBounds
    <3> QED BY <3>1, <1>3, Shape_Kept
  <2> QED BY <2>1, <1>2 DEF Shapes, Stepped
<1>5. onlineCalls' \in Threads \cup {None} /\ machine' \in Threads \cup {None}
  BY DEF Stepped, TypeInv, TypeOK
<1>6. Locks'
  <2>1. None \notin Threads
    BY DEF AccountBounds
  <2>2. Locks /\ onlineCalls \in Threads \cup {None} /\ machine \in Threads \cup {None}
    BY DEF TypeInv, TypeOK
  <2> QED BY <1>2, <1>3, <2>1, <2>2 DEF Stepped, Locks
<1>7. \A u \in {onlineCalls', machine'} \ {None} : calls'[u].at # "idle"
  BY <1>5, <1>6 DEF Locks, HoldsOnline, HoldsMachine
<1> QED BY <1>2, <1>4, <1>5, <1>6, <1>7 DEF TypeInv, TypeOK, Rest, At

\* What is known of a thread.
LEMMA Thread_Is ==
    ASSUME AccountBounds, TypeInv, NEW t \in Threads
    PROVE  /\ calls[t] \in Call /\ Shape(calls[t], issued)
           /\ onlineCalls = t <=> HoldsOnline(calls[t])
           /\ machine = t <=> HoldsMachine(calls[t])
           /\ t # None /\ issued \in Nat /\ issued <= MaxIssued
           /\ file \in Kept /\ CredentialOf(file) \in 1..issued \cup {None}
BY DEF TypeInv, TypeOK, Shapes, Locks, FileIssued, AccountBounds

\* Outside the calls, a step that issues nothing and keeps these is well typed.
LEMMA Rest_Kept ==
    ASSUME AccountBounds, TypeInv, UNCHANGED <<oxyVars, machineVars, history>>,
           cached' \in Credentials \cup {None}
    PROVE  Rest' /\ issued' \in Nat /\ issued <= issued'
BY DEF TypeInv, TypeOK, Rest, FileIssued, oxyVars, machineVars, history

\* A thread that has answered.
LEMMA Idle_Shape == Idle \in Call /\ Shape(Idle, issued') /\ ~HoldsOnline(Idle) /\ ~HoldsMachine(Idle)
BY DEF Idle, Call, Kept, Stages, Shape, HoldsOnline, HoldsMachine, Olds, News, Checks, Removes,
   Setups, CredentialOf

\* A reply, with the locks the thread held let go.
LEMMA Replied_Stepped ==
    ASSUME NEW t, Replied(t),
           onlineCalls' = IF onlineCalls = t THEN None ELSE onlineCalls,
           machine' = IF machine = t THEN None ELSE machine
    PROVE  Stepped(t, Idle)
BY Idle_Shape DEF Replied, Stepped

\* A call of the account concluded, but for the background's refused password.
LEMMA Concludes_Stepped ==
    ASSUME AccountBounds, TypeInv, NEW t \in Threads, NEW r, Concludes(t, r),
           r # "WrongPassword", HoldsOnline(calls[t]), UNCHANGED machine
    PROVE  Stepped(t, Idle)
<1>1. onlineCalls = t /\ machine # t
  BY Thread_Is DEF HoldsOnline, HoldsMachine
<1> QED BY <1>1, Replied_Stepped DEF Concludes

\* check asked: the call is a thread's own.
LEMMA AskCheck_Type ==
    ASSUME AccountBounds, TypeInv, NEW t \in Threads, NEW p \in Passwords, AskCheck(t, p)
    PROVE  TypeInv'
<1>1. Rest' /\ issued' \in Nat /\ issued <= issued'
  BY DEF AskCheck, TypeInv, TypeOK, Rest, FileIssued, oxyVars, machineVars, AccountBounds
<1> DEFINE c == [Idle EXCEPT !.kind = "check", !.at = "checking", !.password = p,
                             !.local = user /\ verifier = p]
<1>2. "check" \in Kinds /\ (user /\ verifier = p) \in BOOLEAN
  BY DEF AskCheck
<1>3. calls[t].at = "idle" /\ calls[t] \in Call /\ Shape(calls[t], issued) /\ issued \in Nat
  BY Thread_Is DEF AskCheck, At
<1>4. c \in Call
  BY <1>2, <1>3 DEF Call, Stages, Idle, Kept
<1>5. Shape(c, issued') /\ ~HoldsOnline(c) /\ ~HoldsMachine(c)
  BY <1>1, <1>3 DEF HoldsOnline, HoldsMachine, Shape, Removes, Setups, Olds, News
<1>6. Stepped(t, c)
  BY <1>3, <1>4, <1>5, Thread_Is DEF AskCheck, Stepped, HoldsOnline, HoldsMachine
<1> QED BY <1>1, <1>6, Stepped_Type

\* check goes on, or answers; the background asks for it from a thread of its own.
LEMMA Check_Type ==
    ASSUME AccountBounds, TypeInv, NEW t \in Threads, Check(t)
    PROVE  TypeInv'
<1>1. Rest' /\ issued' \in Nat /\ issued <= issued'
  BY Rest_Kept DEF Check, TypeInv, TypeOK
<1>2. CASE Replied(t)
  <2>1. onlineCalls # t /\ machine # t
    BY <1>2, Thread_Is DEF Check, At, HoldsOnline, HoldsMachine
  <2> QED BY <1>2, <1>1, <2>1, Replied_Stepped, Stepped_Type DEF Check
<1>3. ASSUME Goes(t, [calls[t] EXCEPT !.at = "queued", !.setVerifier = TRUE])
      PROVE  TypeInv'
  <2> DEFINE c == [calls[t] EXCEPT !.at = "queued", !.setVerifier = TRUE]
  <2>1. calls[t].at = "checking" /\ calls[t] \in Call /\ Shape(calls[t], issued) /\ issued \in Nat
    BY Thread_Is DEF Check, At
  <2>2. c \in Call
    BY <1>3, <2>1 DEF Call, Stages
  <2>3. Shape(c, issued') /\ ~HoldsOnline(c) /\ ~HoldsMachine(c)
    BY <1>1, <2>1 DEF HoldsOnline, HoldsMachine, Shape, Removes, Setups, Olds, News
  <2>4. Stepped(t, c)
    BY <1>3, <2>1, <2>2, <2>3, Thread_Is DEF Check, Stepped, HoldsOnline, HoldsMachine
  <2> QED BY <1>1, <2>4, Stepped_Type
<1>4. ASSUME GoesTo(t, "queued")
      PROVE  TypeInv'
  <2> DEFINE c == [calls[t] EXCEPT !.at = "queued"]
  <2>1. calls[t].at = "checking" /\ calls[t] \in Call /\ Shape(calls[t], issued) /\ issued \in Nat
    BY Thread_Is DEF Check, At
  <2>2. c \in Call
    BY <1>4, <2>1 DEF Call, Stages
  <2>3. Shape(c, issued') /\ ~HoldsOnline(c) /\ ~HoldsMachine(c)
    BY <1>1, <2>1 DEF HoldsOnline, HoldsMachine, Shape, Removes, Setups, Olds, News
  <2>4. Stepped(t, c)
    BY <1>4, <2>1, <2>2, <2>3, Thread_Is DEF Check, Stepped, HoldsOnline, HoldsMachine, GoesTo
  <2> QED BY <1>1, <2>4, Stepped_Type
<1>5. ASSUME NEW b \in Threads, calls[b].at = "idle", b # t,
             calls' = [calls EXCEPT ![t] = Idle,
                         ![b] = [Idle EXCEPT !.kind = "background", !.at = "spawned",
                                             !.password = calls[t].password]]
      PROVE  TypeInv'
  <2> DEFINE c == [Idle EXCEPT !.kind = "background", !.at = "spawned",
                               !.password = calls[t].password]
  <2>1. calls \in [Threads -> Call] /\ calls[t].at = "checking" /\ calls[t].password \in Passwords
    BY Thread_Is DEF Check, At, TypeInv, TypeOK, Shape
  <2>2. Idle \in Call /\ Shape(Idle, issued') /\ ~HoldsOnline(Idle) /\ ~HoldsMachine(Idle)
    BY Idle_Shape
  <2>3. c \in Call
    BY <2>1 DEF Call, Stages, Idle, Kept
  <2>4. Shape(c, issued') /\ ~HoldsOnline(c) /\ ~HoldsMachine(c)
    BY <2>1 DEF Idle, HoldsOnline, HoldsMachine, Shape, Removes, Setups, Olds, News, CredentialOf
  <2>5. onlineCalls \notin {t, b} /\ machine \notin {t, b}
    BY <1>5, <2>1, Thread_Is DEF HoldsOnline, HoldsMachine
  <2>6. /\ calls' \in [Threads -> Call] /\ calls'[t] = Idle /\ calls'[b] = c
        /\ \A u \in Threads \ {t, b} : calls'[u] = calls[u]
    BY <1>5, <2>1, <2>2, <2>3
  <2>7. UNCHANGED <<issued, onlineCalls, machine>>
    BY DEF Check, oxyVars
  <2>8. Shapes'
    BY <2>2, <2>4, <2>6, <2>7 DEF TypeInv, Shapes
  <2>9. Locks'
    BY <2>2, <2>4, <2>6, <2>5, <2>7 DEF TypeInv, Locks
  <2>10. \A u \in {onlineCalls', machine'} \ {None} : calls'[u].at # "idle"
    BY <2>6, <2>5, <2>7 DEF TypeInv, TypeOK, At
  <2> QED BY <1>1, <2>6, <2>7, <2>8, <2>9, <2>10 DEF TypeInv, TypeOK, Rest, At
<1> QED BY <1>2, <1>3, <1>4, <1>5 DEF Check

\* The background's check reads the enrollment it is about.
LEMMA Background_Type ==
    ASSUME AccountBounds, TypeInv, NEW t \in Threads, Background(t)
    PROVE  TypeInv'
<1>1. Rest' /\ issued' \in Nat /\ issued <= issued'
  BY Rest_Kept DEF Background, TypeInv, TypeOK
<1>2. CASE file = None
  <2>1. onlineCalls # t /\ machine # t
    BY <1>2, Thread_Is DEF Background, At, HoldsOnline, HoldsMachine
  <2> QED BY <1>2, <1>1, <2>1, Replied_Stepped, Stepped_Type DEF Background
<1>3. CASE file # None
  <2> DEFINE c == [calls[t] EXCEPT !.at = "queued", !.before = file]
  <2>1. file \in Kept /\ CredentialOf(file) \in 1..issued \cup {None}
    BY Thread_Is
  <2>2. calls[t].at = "spawned" /\ calls[t] \in Call /\ Shape(calls[t], issued) /\ issued \in Nat
    BY Thread_Is DEF Background, At
  <2>3. c \in Call
    BY <1>3, <2>1, <2>2 DEF Call, Stages
  <2>4. Shape(c, issued') /\ ~HoldsOnline(c) /\ ~HoldsMachine(c)
    BY <2>1, <1>1, <2>2 DEF HoldsOnline, HoldsMachine, Shape, Removes, Setups, Olds, News
  <2>5. Stepped(t, c)
    BY <1>3, <2>2, <2>3, <2>4, Thread_Is DEF Background, Stepped, HoldsOnline, HoldsMachine
  <2> QED BY <1>1, <2>5, Stepped_Type
<1> QED BY <1>2, <1>3

\* flag_password_changed keeps the file's credential.
LEMMA FlagPasswordChanged_Type ==
    ASSUME AccountBounds, TypeInv, NEW t \in Threads, FlagPasswordChanged(t)
    PROVE  TypeInv'
<1>1. file' \in Kept /\ CredentialOf(file') \in 1..issued \cup {None}
  BY Thread_Is DEF FlagPasswordChanged, Rewrite, StillHolds, Kept, Enrollment, CredentialOf
<1>2. Rest' /\ issued' \in Nat /\ issued <= issued'
  BY <1>1 DEF FlagPasswordChanged, TypeInv, TypeOK, Rest, FileIssued, oxyVars, Fault, AccountBounds
<1>3. onlineCalls # t /\ machine # t
  BY Thread_Is DEF FlagPasswordChanged, At, HoldsOnline, HoldsMachine
<1> QED BY <1>2, <1>3, Replied_Stepped, Stepped_Type DEF FlagPasswordChanged

\* sign_in takes the account's calls, or answers.
LEMMA SignIn_Type ==
    ASSUME AccountBounds, TypeInv, NEW t \in Threads, SignIn(t)
    PROVE  TypeInv'
<1>1. Rest' /\ issued' \in Nat /\ issued <= issued'
  BY Rest_Kept DEF SignIn, TypeInv, TypeOK
<1>2. CASE CredentialOf(file) = None
  <2>1. onlineCalls # t /\ machine # t
    BY <1>2, Thread_Is DEF SignIn, At, HoldsOnline, HoldsMachine
  <2> QED BY <1>2, <1>1, <2>1, Replied_Stepped, Stepped_Type DEF SignIn
<1>3. CASE CredentialOf(file) # None
  <2> DEFINE c == [calls[t] EXCEPT !.at = "minting", !.old = file.credential,
                                   !.flagged = file.changed]
  <2>1. file.changed \in BOOLEAN /\ file.credential \in 1..issued /\ file.credential \in Credentials
    BY <1>3, Thread_Is DEF CredentialOf, Kept, Enrollment
  <2>2. calls[t].at = "queued" /\ calls[t] \in Call /\ Shape(calls[t], issued) /\ issued \in Nat
    BY Thread_Is DEF SignIn, At
  <2>3. c \in Call
    BY <1>3, <2>1, <2>2 DEF Call, Stages
  <2>4. Shape(c, issued') /\ HoldsOnline(c) /\ ~HoldsMachine(c)
    BY <2>1, <1>1, <2>2 DEF HoldsOnline, HoldsMachine, Shape, Checks, Removes, Setups, News
  <2>5. Stepped(t, c)
    BY <1>3, <2>2, <2>3, <2>4, Thread_Is DEF SignIn, Stepped, HoldsMachine
  <2> QED BY <1>1, <2>5, Stepped_Type
<1> QED BY <1>2, <1>3

\* mint_token finds the device live, gone, or no answer.
LEMMA MintToken_Type ==
    ASSUME AccountBounds, TypeInv, NEW t \in Threads, MintToken(t)
    PROVE  TypeInv'
<1>1. Rest' /\ issued' \in Nat /\ issued <= issued'
  BY Rest_Kept DEF MintToken, TypeInv, TypeOK
<1>2. CASE Concludes(t, "Offline")
  <2>1. HoldsOnline(calls[t])
    BY <1>2, Thread_Is DEF MintToken, At, HoldsOnline
  <2> QED BY <1>2, <1>1, <2>1, Concludes_Stepped, Stepped_Type DEF MintToken
<1>3. ASSUME NEW s \in {"signing", "revoking"}, GoesTo(t, s), UNCHANGED onlineCalls
      PROVE  TypeInv'
  <2> DEFINE c == [calls[t] EXCEPT !.at = s]
  <2>1. calls[t].at = "minting" /\ calls[t] \in Call /\ Shape(calls[t], issued) /\ issued \in Nat
    BY Thread_Is DEF MintToken, At
  <2>2. c \in Call
    BY <1>3, <2>1 DEF Call, Stages
  <2>3. Shape(c, issued') /\ HoldsOnline(c) /\ ~HoldsMachine(c)
    BY <1>1, <2>1 DEF HoldsOnline, HoldsMachine, Shape, Checks, Removes, Setups, Olds, News
  <2>4. Stepped(t, c)
    BY <1>3, <2>1, <2>2, <2>3, Thread_Is DEF MintToken, Stepped, HoldsOnline, HoldsMachine, GoesTo
  <2> QED BY <1>1, <2>4, Stepped_Type
<1> QED BY <1>2, <1>3 DEF MintToken

\* sign_in_password refused; the background's wrong password is flagged.
LEMMA SignInRefused_Type ==
    ASSUME AccountBounds, TypeInv, NEW t \in Threads, SignInRefused(t)
    PROVE  TypeInv'
<1>1. calls[t].password \in Passwords
  BY Thread_Is DEF SignInRefused, At, Shape, Checks
<1>2. Rest' /\ issued' \in Nat /\ issued <= issued'
  BY <1>1 DEF SignInRefused, TypeInv, TypeOK, Rest, FileIssued, oxyVars, machineVars
<1>3. CASE Concludes(t, "Offline")
  <2>1. HoldsOnline(calls[t])
    BY <1>3, Thread_Is DEF SignInRefused, At, HoldsOnline
  <2> QED BY <1>3, <1>2, <2>1, Concludes_Stepped, Stepped_Type DEF SignInRefused
<1>4. CASE Concludes(t, "WrongPassword")
  <2>1. onlineCalls = t /\ machine # t
    BY Thread_Is DEF SignInRefused, At, HoldsOnline, HoldsMachine
  <2>2. CASE Replied(t)
    BY <1>2, <2>1, <2>2, Replied_Stepped, Stepped_Type DEF SignInRefused, Concludes
  <2>3. ASSUME calls[t].kind = "background", GoesTo(t, "flagging")
        PROVE  TypeInv'
    <3> DEFINE c == [calls[t] EXCEPT !.at = "flagging"]
    <3>1. calls[t].at = "signing" /\ calls[t] \in Call /\ Shape(calls[t], issued) /\ issued \in Nat
      BY Thread_Is DEF SignInRefused, At
    <3>2. c \in Call
      BY <1>4, <2>3, <2>1, <3>1 DEF Call, Stages
    <3>3. Shape(c, issued') /\ ~HoldsOnline(c) /\ ~HoldsMachine(c)
      BY <2>3, <1>2, <3>1 DEF HoldsOnline, HoldsMachine, Shape, Removes, Setups, Olds, News
    <3>4. Stepped(t, c)
      BY <2>3, <2>1, <3>2, <3>3 DEF SignInRefused, Stepped, GoesTo, Concludes
    <3> QED BY <1>2, <3>4, Stepped_Type
  <2> QED BY <1>4, <2>2, <2>3 DEF Concludes
<1> QED BY <1>3, <1>4 DEF SignInRefused

\* The authenticator is asked for: the file keeps its credential.
LEMMA SignInSecondFactor_Type ==
    ASSUME AccountBounds, TypeInv, NEW t \in Threads, SignInSecondFactor(t)
    PROVE  TypeInv'
<1>1. file' \in Kept /\ CredentialOf(file') \in 1..issued \cup {None}
  BY Thread_Is DEF SignInSecondFactor, StillHolds, Kept, Enrollment, CredentialOf
<1>2. Rest' /\ issued' \in Nat /\ issued <= issued'
  BY <1>1 DEF SignInSecondFactor, TypeInv, TypeOK, Rest, FileIssued, oxyVars, history
<1>3. PICK r \in {"SecondFactorRequired", "PasswordRight"} : Concludes(t, r)
  BY DEF SignInSecondFactor
<1>4. HoldsOnline(calls[t])
  BY <1>3, Thread_Is DEF SignInSecondFactor, At, HoldsOnline
<1> QED BY <1>3, <1>2, <1>4, Concludes_Stepped, Stepped_Type DEF SignInSecondFactor

\* The credential is rotated, and its answer comes or is lost.
LEMMA SignInAccepted_Type ==
    ASSUME AccountBounds, TypeInv, NEW t \in Threads, SignInAccepted(t)
    PROVE  TypeInv'
<1>1. issued' = issued + 1 /\ issued' \in 1..MaxIssued
  BY Thread_Is DEF SignInAccepted, AccountBounds
<1>2. Rest' /\ issued' \in Nat /\ issued <= issued'
  BY DEF SignInAccepted, TypeInv, TypeOK, Rest, FileIssued, machineVars, Fault, AccountBounds,
     Forgets
<1>3. CASE Concludes(t, "Offline")
  <2>1. HoldsOnline(calls[t])
    BY <1>3, Thread_Is DEF SignInAccepted, At, HoldsOnline
  <2> QED BY <1>3, <1>2, <2>1, Concludes_Stepped, Stepped_Type DEF SignInAccepted
<1>4. ASSUME NEW s \in {"verifying", "rotating"}, UNCHANGED onlineCalls,
             Goes(t, [calls[t] EXCEPT !.new = issued', !.at = s])
      PROVE  TypeInv'
  <2> DEFINE c == [calls[t] EXCEPT !.new = issued', !.at = s]
  <2>1. calls[t].at = "signing" /\ calls[t] \in Call /\ Shape(calls[t], issued) /\ issued \in Nat
    BY Thread_Is DEF SignInAccepted, At
  <2>2. c \in Call
    BY <1>1, <1>4, <2>1 DEF Call, Stages, Credentials
  <2>3. Shape(c, issued') /\ HoldsOnline(c) /\ ~HoldsMachine(c)
    BY <1>1, <2>1 DEF HoldsOnline, HoldsMachine, Shape, Checks, Removes, Setups, Olds, News
  <2>4. Stepped(t, c)
    BY <1>4, <2>1, <2>2, <2>3, Thread_Is DEF SignInAccepted, Stepped, HoldsOnline, HoldsMachine
  <2> QED BY <1>2, <2>4, Stepped_Type
<1> QED BY <1>3, <1>4 DEF SignInAccepted

\* set_verifier: the password checked, or what there was.
LEMMA SetVerifier_Type ==
    ASSUME AccountBounds, TypeInv, NEW t \in Threads, SetVerifier(t)
    PROVE  TypeInv'
<1>1. calls[t].password \in Passwords
  BY Thread_Is DEF SetVerifier, At, Shape, Checks
<1>2. Rest' /\ issued' \in Nat /\ issued <= issued'
  BY <1>1 DEF SetVerifier, TypeInv, TypeOK, Rest, FileIssued, oxyVars, history
<1> DEFINE c == [calls[t] EXCEPT !.at = "rotating"]
<1>3. calls[t].at = "verifying" /\ calls[t] \in Call /\ Shape(calls[t], issued) /\ issued \in Nat
  BY Thread_Is DEF SetVerifier, At
<1>4. c \in Call
  BY <1>3 DEF Call, Stages
<1>5. Shape(c, issued') /\ HoldsOnline(c) /\ ~HoldsMachine(c)
  BY <1>2, <1>3 DEF HoldsOnline, HoldsMachine, Shape, Checks, Removes, Setups, Olds, News
<1>6. Stepped(t, c)
  BY <1>3, <1>4, <1>5, Thread_Is DEF SetVerifier, Stepped, HoldsOnline, HoldsMachine, GoesTo
<1> QED BY <1>2, <1>6, Stepped_Type

\* rotate writes the new credential, or goes on to end it.
LEMMA Rotate_Type ==
    ASSUME AccountBounds, TypeInv, NEW t \in Threads, Rotate(t)
    PROVE  TypeInv'
<1>1. calls[t].new \in 1..issued /\ calls[t].new \in Credentials
  BY Thread_Is DEF Rotate, At, Shape, News, Credentials, AccountBounds
<1>2. UNCHANGED <<oxyPassword, issued, live, user, verifier, made, refused, stray>>
  BY DEF Rotate, oxyVars, machineVars, history
<1>3. UNCHANGED file \/ file' = [credential |-> calls[t].new, changed |-> FALSE]
  BY DEF Rotate, Rewrite
<1>4. file' \in Kept /\ CredentialOf(file') \in 1..issued' \cup {None}
  <2>1. CASE UNCHANGED file
    BY <1>2, <2>1, Thread_Is
  <2>2. CASE file' = [credential |-> calls[t].new, changed |-> FALSE]
    BY <1>2, <2>2, <1>1 DEF Kept, Enrollment, CredentialOf
  <2> QED BY <1>3, <2>1, <2>2
<1>5. cached' \in Credentials \cup {None}
  BY <1>2, Thread_Is DEF Rotate, TypeInv, TypeOK
<1>6. faults' \in 0..MaxFaults
  BY DEF Rotate, Fault, TypeInv, TypeOK, AccountBounds
<1>7. Rest' /\ issued' \in Nat /\ issued <= issued'
  BY <1>2, <1>4, <1>5, <1>6 DEF TypeInv, TypeOK, Rest, FileIssued
<1>8. CASE Concludes(t, "Accepted")
  <2>1. HoldsOnline(calls[t])
    BY <1>8, Thread_Is DEF Rotate, At, HoldsOnline
  <2> QED BY <1>8, <1>7, <2>1, Concludes_Stepped, Stepped_Type DEF Rotate
<1>9. ASSUME GoesTo(t, "ending"), UNCHANGED onlineCalls
      PROVE  TypeInv'
  <2> DEFINE c == [calls[t] EXCEPT !.at = "ending"]
  <2>1. calls[t].at = "rotating" /\ calls[t] \in Call /\ Shape(calls[t], issued) /\ issued \in Nat
    BY Thread_Is DEF Rotate, At
  <2>2. c \in Call
    BY <1>9, <2>1 DEF Call, Stages
  <2>3. Shape(c, issued') /\ HoldsOnline(c) /\ ~HoldsMachine(c)
    BY <1>7, <2>1 DEF HoldsOnline, HoldsMachine, Shape, Checks, Removes, Setups, Olds, News
  <2>4. Stepped(t, c)
    BY <1>9, <2>1, <2>2, <2>3, Thread_Is DEF Rotate, Stepped, HoldsOnline, GoesTo
  <2> QED BY <1>7, <2>4, Stepped_Type
<1> QED BY <1>8, <1>9 DEF Rotate

\* end_online: a setup's call holds no lock by then, a check's lets it go.
LEMMA EndOnline_Type ==
    ASSUME AccountBounds, TypeInv, NEW t \in Threads, EndOnline(t)
    PROVE  TypeInv'
<1>1. UNCHANGED <<oxyPassword, issued, file, user, verifier, cached, made, refused>>
  BY DEF EndOnline, oxyVars, machineVars, history
<1>2. live' \subseteq 1..issued'
  BY <1>1, Thread_Is DEF EndOnline, TypeInv, TypeOK
<1>3. stray' \subseteq 1..issued'
  BY DEF EndOnline, Forgets, TypeInv, TypeOK
<1>4. faults' \in 0..MaxFaults
  BY DEF EndOnline, Fault, TypeInv, TypeOK, AccountBounds
<1>5. Rest' /\ issued' \in Nat /\ issued <= issued'
  BY <1>1, <1>2, <1>3, <1>4 DEF TypeInv, TypeOK, Rest, FileIssued
<1>6. CASE calls[t].kind = "setup"
  <2>1. onlineCalls # t /\ machine # t
    BY <1>6, Thread_Is DEF EndOnline, At, HoldsOnline, HoldsMachine
  <2> QED BY <1>6, <1>5, <2>1, Replied_Stepped, Stepped_Type DEF EndOnline
<1>7. CASE calls[t].kind # "setup"
  <2>1. HoldsOnline(calls[t])
    BY <1>7, Thread_Is DEF EndOnline, At, HoldsOnline
  <2> QED BY <1>7, <1>5, <2>1, Concludes_Stepped, Stepped_Type DEF EndOnline
<1> QED BY <1>6, <1>7

\* revoked forgets the credential, or concludes.
LEMMA Revoked_Type ==
    ASSUME AccountBounds, TypeInv, NEW t \in Threads, Revoked(t)
    PROVE  TypeInv'
<1>1. UNCHANGED <<oxyPassword, issued, live, user, verifier, made, refused, stray>>
  BY DEF Revoked, oxyVars, machineVars, history
<1>2. UNCHANGED file \/ file' = [credential |-> None, changed |-> FALSE]
  BY DEF Revoked, Rewrite
<1>3. file' \in Kept /\ CredentialOf(file') \in 1..issued' \cup {None}
  <2>1. CASE UNCHANGED file
    BY <1>1, <2>1, Thread_Is
  <2>2. CASE file' = [credential |-> None, changed |-> FALSE]
    BY <1>1, <2>2, Thread_Is DEF Kept, Enrollment, CredentialOf
  <2> QED BY <1>2, <2>1, <2>2
<1>4. cached' \in Credentials \cup {None}
  BY <1>1, Thread_Is DEF Revoked, TypeInv, TypeOK
<1>5. faults' \in 0..MaxFaults
  BY DEF Revoked, Fault, TypeInv, TypeOK, AccountBounds
<1>6. Rest' /\ issued' \in Nat /\ issued <= issued'
  BY <1>1, <1>3, <1>4, <1>5 DEF TypeInv, TypeOK, Rest, FileIssued
<1>7. CASE Concludes(t, "Revoked")
  <2>1. HoldsOnline(calls[t])
    BY <1>7, Thread_Is DEF Revoked, At, HoldsOnline
  <2> QED BY <1>7, <1>6, <2>1, Concludes_Stepped, Stepped_Type DEF Revoked
<1>8. ASSUME GoesTo(t, "locking"), UNCHANGED onlineCalls
      PROVE  TypeInv'
  <2> DEFINE c == [calls[t] EXCEPT !.at = "locking"]
  <2>1. calls[t].at = "revoking" /\ calls[t] \in Call /\ Shape(calls[t], issued) /\ issued \in Nat
    BY Thread_Is DEF Revoked, At
  <2>2. c \in Call
    BY <1>8, <2>1 DEF Call, Stages
  <2>3. Shape(c, issued') /\ HoldsOnline(c) /\ ~HoldsMachine(c)
    BY <1>6, <2>1 DEF HoldsOnline, HoldsMachine, Shape, Checks, Removes, Setups, Olds, News
  <2>4. Stepped(t, c)
    BY <1>8, <2>1, <2>2, <2>3, Thread_Is DEF Revoked, Stepped, HoldsOnline, GoesTo
  <2> QED BY <1>6, <2>4, Stepped_Type
<1> QED BY <1>7, <1>8 DEF Revoked

\* The verifier is locked, or stays.
LEMMA LockVerifier_Type ==
    ASSUME AccountBounds, TypeInv, NEW t \in Threads, LockVerifier(t)
    PROVE  TypeInv'
<1>1. Rest' /\ issued' \in Nat /\ issued <= issued'
  BY DEF LockVerifier, TypeInv, TypeOK, Rest, FileIssued, oxyVars, Fault, AccountBounds
<1>2. HoldsOnline(calls[t])
  BY Thread_Is DEF LockVerifier, At, HoldsOnline
<1> QED BY <1>1, <1>2, Concludes_Stepped, Stepped_Type DEF LockVerifier

\* A token is asked for.
LEMMA AskToken_Type ==
    ASSUME AccountBounds, TypeInv, NEW t \in Threads, AskToken(t)
    PROVE  TypeInv'
<1>1. Rest' /\ issued' \in Nat /\ issued <= issued'
  BY DEF AskToken, TypeInv, TypeOK, Rest, FileIssued, oxyVars, machineVars, AccountBounds
<1> DEFINE c == [Idle EXCEPT !.kind = "token", !.at = "asking"]
<1>2. "token" \in Kinds
  BY DEF AskToken
<1>3. calls[t].at = "idle" /\ calls[t] \in Call /\ Shape(calls[t], issued) /\ issued \in Nat
  BY Thread_Is DEF AskToken, At
<1>4. c \in Call
  BY <1>2, <1>3 DEF Call, Stages, Idle, Kept
<1>5. Shape(c, issued') /\ ~HoldsOnline(c) /\ ~HoldsMachine(c)
  BY <1>1, <1>3 DEF HoldsOnline, HoldsMachine, Shape, Checks, Removes, Setups, Olds, News
<1>6. Stepped(t, c)
  BY <1>3, <1>4, <1>5, Thread_Is DEF AskToken, Stepped, HoldsOnline, HoldsMachine
<1> QED BY <1>1, <1>6, Stepped_Type

\* token is asked of Oxy with the account's calls held, or answered.
LEMMA Token_Type ==
    ASSUME AccountBounds, TypeInv, NEW t \in Threads, Token(t)
    PROVE  TypeInv'
<1>1. cached' \in Credentials \cup {None}
  BY DEF Token, TypeInv, TypeOK
<1>2. Rest' /\ issued' \in Nat /\ issued <= issued'
  BY <1>1, Rest_Kept DEF Token
<1>3. CASE Replied(t) /\ UNCHANGED onlineCalls
  <2>1. onlineCalls # t /\ machine # t
    BY <1>3, Thread_Is DEF Token, At, HoldsOnline, HoldsMachine
  <2> QED BY <1>3, <1>2, <2>1, Replied_Stepped, Stepped_Type DEF Token
<1>4. CASE file # None /\ file.credential # None /\ onlineCalls' = t
          /\ Goes(t, [calls[t] EXCEPT !.at = "mintingToken", !.old = file.credential])
  <2> DEFINE c == [calls[t] EXCEPT !.at = "mintingToken", !.old = file.credential]
  <2>1. file.credential \in 1..issued /\ file.credential \in Credentials
    BY <1>4, Thread_Is DEF CredentialOf, Credentials, AccountBounds
  <2>2. calls[t].at = "asking" /\ calls[t] \in Call /\ Shape(calls[t], issued) /\ issued \in Nat
    BY Thread_Is DEF Token, At
  <2>3. c \in Call
    BY <1>4, <2>1, <2>2 DEF Call, Stages
  <2>4. Shape(c, issued') /\ HoldsOnline(c) /\ ~HoldsMachine(c)
    BY <2>1, <1>2, <2>2 DEF HoldsOnline, HoldsMachine, Shape, Checks, Removes, Setups, News
  <2>5. Stepped(t, c)
    BY <1>4, <2>2, <2>3, <2>4, Thread_Is DEF Token, Stepped, HoldsMachine
  <2> QED BY <1>2, <2>5, Stepped_Type
<1> QED BY <1>3, <1>4 DEF Token

\* A token is minted, or the device is gone.
LEMMA MintAppToken_Type ==
    ASSUME AccountBounds, TypeInv, NEW t \in Threads, MintAppToken(t)
    PROVE  TypeInv'
<1>1. cached' \in Credentials \cup {None}
  BY Thread_Is DEF MintAppToken, TypeInv, TypeOK, Call
<1>2. Rest' /\ issued' \in Nat /\ issued <= issued'
  BY <1>1, Rest_Kept DEF MintAppToken
<1>3. ASSUME NEW r \in {"Offline", "Accepted"}, Concludes(t, r)
      PROVE  TypeInv'
  <2>1. HoldsOnline(calls[t])
    BY <1>3, Thread_Is DEF MintAppToken, At, HoldsOnline
  <2> QED BY <1>3, <1>2, <2>1, Concludes_Stepped, Stepped_Type DEF MintAppToken
<1>4. ASSUME GoesTo(t, "revoking"), UNCHANGED onlineCalls
      PROVE  TypeInv'
  <2> DEFINE c == [calls[t] EXCEPT !.at = "revoking"]
  <2>1. calls[t].at = "mintingToken" /\ calls[t] \in Call /\ Shape(calls[t], issued) /\ issued \in Nat
    BY Thread_Is DEF MintAppToken, At
  <2>2. c \in Call
    BY <1>4, <2>1 DEF Call, Stages
  <2>3. Shape(c, issued') /\ HoldsOnline(c) /\ ~HoldsMachine(c)
    BY <1>2, <2>1 DEF HoldsOnline, HoldsMachine, Shape, Checks, Removes, Setups, Olds, News
  <2>4. Stepped(t, c)
    BY <1>4, <2>1, <2>2, <2>3, Thread_Is DEF MintAppToken, Stepped, HoldsOnline, HoldsMachine,
       GoesTo
  <2> QED BY <1>2, <2>4, Stepped_Type
<1> QED BY <1>3, <1>4 DEF MintAppToken

\* The account's removal is asked for.
LEMMA AskRemove_Type ==
    ASSUME AccountBounds, TypeInv, NEW t \in Threads, AskRemove(t)
    PROVE  TypeInv'
<1>1. Rest' /\ issued' \in Nat /\ issued <= issued'
  BY DEF AskRemove, TypeInv, TypeOK, Rest, FileIssued, oxyVars, machineVars, AccountBounds
<1> DEFINE c == [Idle EXCEPT !.kind = "remove", !.at = "leaving"]
<1>2. "remove" \in Kinds
  BY DEF AskRemove
<1>3. calls[t].at = "idle" /\ calls[t] \in Call /\ Shape(calls[t], issued) /\ issued \in Nat
  BY Thread_Is DEF AskRemove, At
<1>4. c \in Call
  BY <1>2, <1>3 DEF Call, Stages, Idle, Kept
<1>5. Shape(c, issued') /\ ~HoldsOnline(c) /\ ~HoldsMachine(c)
  BY <1>1, <1>3 DEF HoldsOnline, HoldsMachine, Shape, Checks, Setups, Olds, News
<1>6. Stepped(t, c)
  BY <1>3, <1>4, <1>5, Thread_Is DEF AskRemove, Stepped, HoldsOnline, HoldsMachine
<1> QED BY <1>1, <1>6, Stepped_Type

\* remove ends the device, with the account's calls held.
LEMMA Remove_Type ==
    ASSUME AccountBounds, TypeInv, NEW t \in Threads, Remove(t)
    PROVE  TypeInv'
<1>1. UNCHANGED <<oxyPassword, issued, file, user, verifier, cached, made, refused>>
  BY DEF Remove, oxyVars, machineVars, history
<1>2. live' \subseteq 1..issued'
  BY <1>1, Thread_Is DEF Remove, TypeInv, TypeOK
<1>3. stray' \subseteq 1..issued'
  BY DEF Remove, Forgets, TypeInv, TypeOK
<1>4. faults' \in 0..MaxFaults
  BY DEF Remove, Fault, TypeInv, TypeOK, AccountBounds
<1>5. Rest' /\ issued' \in Nat /\ issued <= issued'
  BY <1>1, <1>2, <1>3, <1>4 DEF TypeInv, TypeOK, Rest, FileIssued
<1>6. CASE file = None
  <2>1. onlineCalls # t /\ machine # t
    BY <1>6, Thread_Is DEF Remove, At, HoldsOnline, HoldsMachine
  <2> QED BY <1>6, <1>5, <2>1, Replied_Stepped, Stepped_Type DEF Remove
<1>7. CASE file # None
  <2> DEFINE c == [calls[t] EXCEPT !.at = "shutting"]
  <2>1. calls[t].at = "leaving" /\ calls[t] \in Call /\ Shape(calls[t], issued) /\ issued \in Nat
    BY Thread_Is DEF Remove, At
  <2>2. c \in Call
    BY <1>7, <2>1 DEF Call, Stages
  <2>3. Shape(c, issued') /\ HoldsOnline(c) /\ ~HoldsMachine(c)
    BY <1>5, <2>1 DEF HoldsOnline, HoldsMachine, Shape, Checks, Removes, Setups, Olds, News
  <2>4. Stepped(t, c)
    BY <1>7, <2>1, <2>2, <2>3, Thread_Is DEF Remove, Stepped, HoldsMachine, GoesTo
  <2> QED BY <1>5, <2>4, Stepped_Type
<1> QED BY <1>6, <1>7

\* The removed account's verifier is locked, or stays.
LEMMA RemoveLocks_Type ==
    ASSUME AccountBounds, TypeInv, NEW t \in Threads, RemoveLocks(t)
    PROVE  TypeInv'
<1>1. Rest' /\ issued' \in Nat /\ issued <= issued'
  BY DEF RemoveLocks, TypeInv, TypeOK, Rest, FileIssued, oxyVars, Fault, AccountBounds
<1> DEFINE c == [calls[t] EXCEPT !.at = "forgetting"]
<1>2. calls[t].at = "shutting" /\ calls[t] \in Call /\ Shape(calls[t], issued) /\ issued \in Nat
  BY Thread_Is DEF RemoveLocks, At
<1>3. c \in Call
  BY <1>2 DEF Call, Stages
<1>4. Shape(c, issued') /\ HoldsOnline(c) /\ ~HoldsMachine(c)
  BY <1>1, <1>2 DEF HoldsOnline, HoldsMachine, Shape, Checks, Removes, Setups, Olds, News
<1>5. Stepped(t, c)
  BY <1>2, <1>3, <1>4, Thread_Is DEF RemoveLocks, Stepped, HoldsOnline, HoldsMachine, GoesTo
<1> QED BY <1>1, <1>5, Stepped_Type

\* The removed account's credential is forgotten, or its removal has failed.
LEMMA RemoveForgets_Type ==
    ASSUME AccountBounds, TypeInv, NEW t \in Threads, RemoveForgets(t)
    PROVE  TypeInv'
<1>1. UNCHANGED <<oxyPassword, issued, live, user, verifier, made, refused, stray>>
  BY DEF RemoveForgets, oxyVars, machineVars, history
<1>2. UNCHANGED file \/ file' = [credential |-> None, changed |-> FALSE]
  BY DEF RemoveForgets, Rewrite
<1>3. file' \in Kept /\ CredentialOf(file') \in 1..issued' \cup {None}
  <2>1. CASE UNCHANGED file
    BY <1>1, <2>1, Thread_Is
  <2>2. CASE file' = [credential |-> None, changed |-> FALSE]
    BY <1>1, <2>2, Thread_Is DEF Kept, Enrollment, CredentialOf
  <2> QED BY <1>2, <2>1, <2>2
<1>4. cached' \in Credentials \cup {None}
  BY <1>1, Thread_Is DEF RemoveForgets, TypeInv, TypeOK
<1>5. faults' \in 0..MaxFaults
  BY DEF RemoveForgets, Fault, TypeInv, TypeOK, AccountBounds
<1>6. Rest' /\ issued' \in Nat /\ issued <= issued'
  BY <1>1, <1>3, <1>4, <1>5 DEF TypeInv, TypeOK, Rest, FileIssued
<1>7. CASE Replied(t)
  <2>1. onlineCalls = t /\ machine # t
    BY Thread_Is DEF RemoveForgets, At, HoldsOnline, HoldsMachine
  <2> QED BY <1>6, <1>7, <2>1, Replied_Stepped, Stepped_Type DEF RemoveForgets
<1>8. ASSUME GoesTo(t, "finishing")
      PROVE  TypeInv'
  <2> DEFINE c == [calls[t] EXCEPT !.at = "finishing"]
  <2>1. calls[t].at = "forgetting" /\ calls[t] \in Call /\ Shape(calls[t], issued) /\ issued \in Nat
    BY Thread_Is DEF RemoveForgets, At
  <2>2. c \in Call
    BY <1>8, <2>1 DEF Call, Stages
  <2>3. Shape(c, issued') /\ ~HoldsOnline(c) /\ ~HoldsMachine(c)
    BY <1>6, <2>1 DEF HoldsOnline, HoldsMachine, Shape, Checks, Removes, Setups, Olds, News
  <2>4. Stepped(t, c)
    BY <1>8, <2>1, <2>2, <2>3, Thread_Is DEF RemoveForgets, Stepped, HoldsOnline, GoesTo
  <2> QED BY <1>6, <2>4, Stepped_Type
<1> QED BY <1>7, <1>8 DEF RemoveForgets

\* The removed user's home goes, or stays.
LEMMA FinishRemoval_Type ==
    ASSUME AccountBounds, TypeInv, NEW t \in Threads, FinishRemoval(t)
    PROVE  TypeInv'
<1>1. UNCHANGED <<oxyPassword, issued, live, file, cached, made, faults, refused, stray>>
  BY DEF FinishRemoval, oxyVars, machineVars, history
<1>2. user' \in BOOLEAN
  BY <1>1, Thread_Is DEF FinishRemoval, TypeInv, TypeOK
<1>3. verifier' \in Passwords \cup {None}
  BY <1>1, Thread_Is DEF FinishRemoval, TypeInv, TypeOK
<1>4. Rest' /\ issued' \in Nat /\ issued <= issued'
  BY <1>1, <1>2, <1>3 DEF TypeInv, TypeOK, Rest, FileIssued
<1>5. CASE Replied(t)
  <2>1. onlineCalls # t /\ machine # t
    BY <1>5, Thread_Is DEF FinishRemoval, At, HoldsOnline, HoldsMachine
  <2> QED BY <1>5, <1>4, <2>1, Replied_Stepped, Stepped_Type DEF FinishRemoval
<1>6. ASSUME GoesTo(t, "unlisting")
      PROVE  TypeInv'
  <2> DEFINE c == [calls[t] EXCEPT !.at = "unlisting"]
  <2>1. calls[t].at = "finishing" /\ calls[t] \in Call /\ Shape(calls[t], issued) /\ issued \in Nat
    BY Thread_Is DEF FinishRemoval, At
  <2>2. c \in Call
    BY <1>6, <2>1 DEF Call, Stages
  <2>3. Shape(c, issued') /\ ~HoldsOnline(c) /\ ~HoldsMachine(c)
    BY <1>4, <2>1 DEF HoldsOnline, HoldsMachine, Shape, Checks, Removes, Setups, Olds, News
  <2>4. Stepped(t, c)
    BY <1>6, <2>1, <2>2, <2>3, Thread_Is DEF FinishRemoval, Stepped, HoldsOnline, HoldsMachine,
       GoesTo
  <2> QED BY <1>4, <2>4, Stepped_Type
<1> QED BY <1>5, <1>6 DEF FinishRemoval

\* The removed account's file goes, or stays.
LEMMA RemoveFile_Type ==
    ASSUME AccountBounds, TypeInv, NEW t \in Threads, RemoveFile(t)
    PROVE  TypeInv'
<1>1. Rest' /\ issued' \in Nat /\ issued <= issued'
  BY DEF RemoveFile, TypeInv, TypeOK, Rest, FileIssued, CredentialOf, Kept, oxyVars, Fault,
     AccountBounds
<1>2. onlineCalls # t /\ machine # t
  BY Thread_Is DEF RemoveFile, At, HoldsOnline, HoldsMachine
<1> QED BY <1>1, <1>2, Replied_Stepped, Stepped_Type DEF RemoveFile

\* A setup is asked for.
LEMMA Enroll_Type ==
    ASSUME AccountBounds, TypeInv, NEW t \in Threads, NEW p \in Passwords, Enroll(t, p)
    PROVE  TypeInv'
<1>1. Rest' /\ issued' \in Nat /\ issued <= issued'
  BY DEF Enroll, TypeInv, TypeOK, Rest, FileIssued, oxyVars, machineVars, AccountBounds
<1> DEFINE c == [Idle EXCEPT !.kind = "setup", !.at = "enrolling", !.password = p]
<1>2. "setup" \in Kinds
  BY DEF Enroll
<1>3. calls[t].at = "idle" /\ calls[t] \in Call /\ Shape(calls[t], issued) /\ issued \in Nat
  BY Thread_Is DEF Enroll, At
<1>4. c \in Call
  BY <1>2, <1>3 DEF Call, Stages, Idle, Kept
<1>5. Shape(c, issued') /\ ~HoldsOnline(c) /\ ~HoldsMachine(c)
  BY <1>1, <1>3 DEF HoldsOnline, HoldsMachine, Shape, Checks, Removes, Olds, News, Idle
<1>6. Stepped(t, c)
  BY <1>3, <1>4, <1>5, Thread_Is DEF Enroll, Stepped, HoldsOnline
<1> QED BY <1>1, <1>6, Stepped_Type

\* Oxy signs the account in on its new device, or does not.
LEMMA EnrollSignsIn_Type ==
    ASSUME AccountBounds, TypeInv, NEW t \in Threads, EnrollSignsIn(t)
    PROVE  TypeInv'
<1>1. UNCHANGED <<oxyPassword, file, user, verifier, cached, made, refused>>
  BY DEF EnrollSignsIn, oxyVars, machineVars, history
<1>2. issued' \in issued..MaxIssued
  BY Thread_Is DEF EnrollSignsIn, TypeInv, TypeOK, AccountBounds
<1>3. live' \subseteq 1..issued'
  BY <1>2, Thread_Is DEF EnrollSignsIn, TypeInv, TypeOK
<1>4. stray' \subseteq 1..issued'
  BY DEF EnrollSignsIn, Forgets, TypeInv, TypeOK
<1>5. faults' \in 0..MaxFaults
  BY DEF EnrollSignsIn, Fault, TypeInv, TypeOK, AccountBounds
<1>6. Rest' /\ issued' \in Nat /\ issued <= issued'
  BY <1>1, <1>2, <1>3, <1>4, <1>5 DEF TypeInv, TypeOK, Rest, FileIssued
<1>7. CASE Replied(t)
  <2>1. onlineCalls # t /\ machine # t
    BY <1>7, Thread_Is DEF EnrollSignsIn, At, HoldsOnline, HoldsMachine
  <2> QED BY <1>7, <1>6, <2>1, Replied_Stepped, Stepped_Type DEF EnrollSignsIn
<1>8. ASSUME issued' \in 1..MaxIssued, Goes(t, [calls[t] EXCEPT !.at = "committing", !.new = issued'])
      PROVE  TypeInv'
  <2> DEFINE c == [calls[t] EXCEPT !.at = "committing", !.new = issued']
  <2>1. calls[t].at = "enrolling" /\ calls[t] \in Call /\ Shape(calls[t], issued) /\ issued \in Nat
    BY Thread_Is DEF EnrollSignsIn, At
  <2>2. c \in Call
    BY <1>8, <2>1 DEF Call, Stages, Credentials
  <2>3. Shape(c, issued') /\ ~HoldsOnline(c) /\ ~HoldsMachine(c)
    BY <1>8, <1>6, <2>1 DEF HoldsOnline, HoldsMachine, Shape, Checks, Removes, Setups, Olds, News
  <2>4. Stepped(t, c)
    BY <1>8, <2>1, <2>2, <2>3, Thread_Is DEF EnrollSignsIn, Stepped, HoldsOnline, HoldsMachine
  <2> QED BY <1>6, <2>4, Stepped_Type
<1>9. issued' = issued + 1 => issued' \in 1..MaxIssued
  BY <1>2, Thread_Is
<1> QED BY <1>7, <1>8, <1>9 DEF EnrollSignsIn

\* commit takes the machine, or the setup's device is ended.
LEMMA Commit_Type ==
    ASSUME AccountBounds, TypeInv, NEW t \in Threads, Commit(t)
    PROVE  TypeInv'
<1>1. UNCHANGED <<oxyPassword, issued, live, file, verifier, cached, made, faults, refused, stray>>
  BY DEF Commit, oxyVars, machineVars, history
<1>2. user' \in BOOLEAN
  BY <1>1, Thread_Is DEF Commit, TypeInv, TypeOK
<1>3. Rest' /\ issued' \in Nat /\ issued <= issued'
  BY <1>1, <1>2 DEF TypeInv, TypeOK, Rest, FileIssued
<1>4. ASSUME GoesTo(t, "ending"), UNCHANGED machine
      PROVE  TypeInv'
  <2> DEFINE c == [calls[t] EXCEPT !.at = "ending"]
  <2>1. calls[t].at = "committing" /\ calls[t] \in Call /\ Shape(calls[t], issued) /\ issued \in Nat
    BY Thread_Is DEF Commit, At
  <2>2. c \in Call
    BY <1>4, <2>1 DEF Call, Stages
  <2>3. Shape(c, issued') /\ ~HoldsOnline(c) /\ ~HoldsMachine(c)
    BY <1>3, <2>1 DEF HoldsOnline, HoldsMachine, Shape, Checks, Removes, Setups, Olds, News
  <2>4. Stepped(t, c)
    BY <1>4, <2>1, <2>2, <2>3, Thread_Is DEF Commit, Stepped, HoldsOnline, GoesTo
  <2> QED BY <1>3, <2>4, Stepped_Type
<1>5. ASSUME machine' = t, NEW b \in {calls[t].before, file},
             Goes(t, [calls[t] EXCEPT !.at = "storing", !.before = b])
      PROVE  TypeInv'
  <2> DEFINE c == [calls[t] EXCEPT !.at = "storing", !.before = b]
  <2>1. b \in Kept /\ CredentialOf(b) \in 1..issued \cup {None}
    BY Thread_Is DEF Call, Shape
  <2>2. calls[t].at = "committing" /\ calls[t] \in Call /\ Shape(calls[t], issued) /\ issued \in Nat
    BY Thread_Is DEF Commit, At
  <2>3. c \in Call
    BY <1>5, <2>1, <2>2 DEF Call, Stages
  <2>4. Shape(c, issued') /\ ~HoldsOnline(c) /\ HoldsMachine(c)
    BY <2>1, <1>3, <2>2 DEF HoldsOnline, HoldsMachine, Shape, Checks, Removes, Setups, Olds, News
  <2>5. Stepped(t, c)
    BY <1>5, <2>2, <2>3, <2>4, Thread_Is DEF Commit, Stepped, HoldsOnline
  <2> QED BY <1>3, <2>5, Stepped_Type
<1>6. CASE machine' = t /\ GoesTo(t, "storing")
  <2>1. Goes(t, [calls[t] EXCEPT !.at = "storing", !.before = calls[t].before])
    BY <1>6, Thread_Is DEF Goes, GoesTo, Call
  <2> QED BY <1>5, <1>6, <2>1
<1> QED BY <1>4, <1>5, <1>6 DEF Commit

\* An undone setup goes on to end its device.
LEMMA Undo_Stepped ==
    ASSUME AccountBounds, TypeInv, NEW t \in Threads, calls[t].at \in {"storing", "settingUp"}, Undo(t),
           UNCHANGED onlineCalls, issued' = issued
    PROVE  Stepped(t, [calls[t] EXCEPT !.at = "ending"])
<1> DEFINE c == [calls[t] EXCEPT !.at = "ending"]
<1>1. calls[t] \in Call /\ Shape(calls[t], issued) /\ machine = t /\ onlineCalls # t
  BY Thread_Is DEF HoldsMachine, HoldsOnline
<1>2. c \in Call
  BY <1>1 DEF Call, Stages
<1>3. Shape(c, issued') /\ ~HoldsOnline(c) /\ ~HoldsMachine(c)
  BY <1>1 DEF HoldsOnline, HoldsMachine, Shape, Checks, Removes, Setups, Olds, News
<1> QED BY <1>1, <1>2, <1>3 DEF Undo, Stepped, GoesTo

\* commit stores the new credential, or what there was is put back.
LEMMA CommitStores_Type ==
    ASSUME AccountBounds, TypeInv, NEW t \in Threads, CommitStores(t)
    PROVE  TypeInv'
<1>1. /\ calls[t].at = "storing" /\ calls[t] \in Call /\ calls[t].new \in 1..issued
     /\ CredentialOf(calls[t].before) \in 1..issued \cup {None} /\ calls[t].before \in Kept
  BY Thread_Is DEF CommitStores, At, Shape, News, Call
<1>2. calls[t].new \in Credentials
  BY <1>1, Thread_Is DEF Credentials, AccountBounds
<1>3. UNCHANGED <<oxyPassword, issued, live, verifier, cached, made, refused>>
  BY DEF CommitStores, oxyVars, machineVars, history
<1>4. file' \in {file, calls[t].before} \/ file' = [credential |-> calls[t].new, changed |-> FALSE]
  BY DEF CommitStores, Undo
<1>5. file' \in Kept /\ CredentialOf(file') \in 1..issued' \cup {None}
  <2>1. CASE file' \in {file, calls[t].before}
    BY <1>3, <1>1, <2>1, Thread_Is
  <2>2. CASE file' = [credential |-> calls[t].new, changed |-> FALSE]
    BY <1>3, <2>2, <1>1, <1>2 DEF Kept, Enrollment, CredentialOf
  <2> QED BY <1>4, <2>1, <2>2
<1>6. user' \in BOOLEAN
  BY DEF CommitStores, TypeInv, TypeOK, Undo
<1>7. faults' \in 0..MaxFaults
  BY DEF CommitStores, Fault, TypeInv, TypeOK, AccountBounds
<1>8. stray' \subseteq 1..issued'
  BY <1>3 DEF CommitStores, Forgets, TypeInv, TypeOK, Undo
<1>9. Rest' /\ issued' \in Nat /\ issued <= issued'
  BY <1>3, <1>5, <1>6, <1>7, <1>8 DEF TypeInv, TypeOK, Rest, FileIssued
<1>10. CASE Undo(t)
  BY <1>1, <1>3, <1>10, <1>9, Undo_Stepped, Stepped_Type DEF CommitStores
<1>11. ASSUME GoesTo(t, "settingUp"), UNCHANGED machine
      PROVE  TypeInv'
  <2> DEFINE c == [calls[t] EXCEPT !.at = "settingUp"]
  <2>1. calls[t].at = "storing" /\ calls[t] \in Call /\ Shape(calls[t], issued) /\ issued \in Nat
    BY Thread_Is DEF CommitStores, At
  <2>2. c \in Call
    BY <1>11, <2>1 DEF Call, Stages
  <2>3. Shape(c, issued') /\ ~HoldsOnline(c) /\ HoldsMachine(c)
    BY <1>9, <2>1 DEF HoldsOnline, HoldsMachine, Shape, Checks, Removes, Setups, Olds, News
  <2>4. Stepped(t, c)
    BY <1>11, <2>1, <2>2, <2>3, Thread_Is DEF CommitStores, Stepped, HoldsOnline, HoldsMachine,
       GoesTo
  <2> QED BY <1>9, <2>4, Stepped_Type
<1> QED BY <1>10, <1>11 DEF CommitStores

\* commit ends with the verifier, or what there was is put back.
LEMMA CommitVerifies_Type ==
    ASSUME AccountBounds, TypeInv, NEW t \in Threads, CommitVerifies(t)
    PROVE  TypeInv'
<1>1. /\ calls[t].at = "settingUp" /\ calls[t] \in Call /\ calls[t].password \in Passwords
     /\ CredentialOf(calls[t].before) \in 1..issued \cup {None} /\ calls[t].before \in Kept
     /\ calls[t].kind = "setup" /\ machine = t /\ onlineCalls # t
  BY Thread_Is DEF CommitVerifies, At, Shape, Call, Setups, HoldsMachine, HoldsOnline
<1>2. UNCHANGED <<oxyPassword, issued, live, cached, made, refused>>
  BY DEF CommitVerifies, oxyVars, machineVars, history
<1>3. file' = file \/ file' = calls[t].before
  BY DEF CommitVerifies, Undo
<1>4. file' \in Kept /\ CredentialOf(file') \in 1..issued' \cup {None}
  <2>1. CASE file' = file
    BY <1>2, <2>1, Thread_Is
  <2>2. CASE file' = calls[t].before
    BY <1>2, <2>2, <1>1, Thread_Is
  <2> QED BY <1>3, <2>1, <2>2
<1>5. user' \in BOOLEAN
  BY DEF CommitVerifies, TypeInv, TypeOK, Undo
<1>6. verifier' \in Passwords \cup {None}
  BY <1>2, <1>1, Thread_Is DEF CommitVerifies, TypeInv, TypeOK
<1>7. faults' \in 0..MaxFaults
  BY DEF CommitVerifies, Fault, TypeInv, TypeOK, AccountBounds
<1>8. stray' \subseteq 1..issued'
  BY <1>2 DEF CommitVerifies, Forgets, TypeInv, TypeOK, Undo
<1>9. Rest' /\ issued' \in Nat /\ issued <= issued'
  BY <1>2, <1>4, <1>5, <1>6, <1>7, <1>8 DEF TypeInv, TypeOK, Rest, FileIssued
<1>10. CASE Undo(t)
  BY <1>1, <1>2, <1>10, <1>9, Undo_Stepped, Stepped_Type DEF CommitVerifies
<1>11. CASE machine' = None /\ Replied(t)
  BY <1>1, <1>11, <1>9, Replied_Stepped, Stepped_Type DEF CommitVerifies
<1>12. ASSUME machine' = None, CredentialOf(calls[t].before) # None,
             Goes(t, [calls[t] EXCEPT !.at = "ending", !.new = calls[t].before.credential])
      PROVE  TypeInv'
  <2> DEFINE c == [calls[t] EXCEPT !.at = "ending", !.new = calls[t].before.credential]
  <2>1. calls[t].before.credential \in 1..issued /\ calls[t].before.credential \in Credentials
    BY <1>1, <1>12, Thread_Is DEF CredentialOf, Credentials, AccountBounds
  <2>2. calls[t].at = "settingUp" /\ calls[t] \in Call /\ Shape(calls[t], issued) /\ issued \in Nat
    BY Thread_Is DEF CommitVerifies, At
  <2>3. c \in Call
    BY <1>1, <1>12, <2>1, <2>2 DEF Call, Stages
  <2>4. Shape(c, issued') /\ ~HoldsOnline(c) /\ ~HoldsMachine(c)
    BY <1>1, <2>1, <1>9, <2>2 DEF HoldsOnline, HoldsMachine, Shape, Checks, Removes, Olds, News
  <2>5. Stepped(t, c)
    BY <1>1, <1>12, <2>3, <2>4 DEF CommitVerifies, Stepped
  <2> QED BY <1>9, <2>5, Stepped_Type
<1> QED BY <1>10, <1>11, <1>12 DEF CommitVerifies

\* Oxy's own steps and a crash.
LEMMA Other_Type ==
    ASSUME AccountBounds, TypeInv, PasswordChanges \/ SignsOut \/ Crash
    PROVE  TypeInv'
<1>1. CASE PasswordChanges
  BY <1>1 DEF PasswordChanges, TypeInv, TypeOK, Shapes, Locks, FileIssued, At, machineVars,
     AccountBounds
<1>2. CASE SignsOut
  BY <1>2 DEF SignsOut, Fault, TypeInv, TypeOK, Shapes, Locks, FileIssued, At, machineVars,
     AccountBounds
<1>3. CASE Crash
  <2>1. \A t \in Threads : calls'[t] = Idle
    BY <1>3 DEF Crash
  <2>2. calls' \in [Threads -> Call]
    BY <1>3, Idle_Shape DEF Crash
  <2>3. Shapes' /\ Locks'
    BY <1>3, Idle_Shape DEF Crash, Shapes, Locks, AccountBounds
  <2>4. Rest'
    <3>1. faults' \in 0..MaxFaults
      BY <1>3 DEF Crash, Fault, TypeInv, TypeOK, AccountBounds
    <3>2. stray' \subseteq 1..issued
      BY <1>3 DEF Crash, TypeInv, TypeOK
    <3> QED BY <1>3, <3>1 DEF Crash, TypeInv, TypeOK, Rest, FileIssued, oxyVars, machineVars
  <2> QED BY <1>3, <2>2, <2>3, <2>4 DEF Crash, TypeInv, TypeOK, Rest
<1> QED BY <1>1, <1>2, <1>3

\* The type invariant holds of the initial states, and every step keeps it.
LEMMA Init_Type ==
    ASSUME AccountBounds, Init
    PROVE  TypeInv
<1>1. \A t \in Threads : calls[t] = Idle
  BY DEF Init
<1>2. calls \in [Threads -> Call] /\ Shapes /\ Locks
  <2>1. Idle \in Call /\ Shape(Idle, issued) /\ ~HoldsOnline(Idle) /\ ~HoldsMachine(Idle)
    BY DEF Idle, Call, Kept, Stages, Shape, HoldsOnline, HoldsMachine, Olds, News, Checks, Removes,
       Setups, CredentialOf
  <2> QED BY <1>1, <2>1 DEF Init, Shapes, Locks, AccountBounds
<1>3. file \in Kept /\ FileIssued /\ issued \in 0..MaxIssued /\ live \subseteq 1..issued
  <2>1. CASE issued = 1 /\ live = {1} /\ file = [credential |-> 1, changed |-> FALSE]
    BY <2>1 DEF FileIssued, CredentialOf, Kept, Enrollment, Credentials, AccountBounds
  <2>2. CASE issued = 0 /\ live = {} /\ file = None
    BY <2>2 DEF FileIssued, CredentialOf, Kept, AccountBounds
  <2> QED BY <2>1, <2>2 DEF Init
<1>4. /\ oxyPassword \in Passwords /\ user \in BOOLEAN /\ verifier \in Passwords \cup {None}
      /\ onlineCalls = None /\ machine = None /\ cached = None /\ made = 0 /\ faults = 0
      /\ refused = {} /\ stray = {}
  BY DEF Init
<1> QED BY <1>2, <1>3, <1>4 DEF TypeInv, TypeOK, AccountBounds

\* Every step keeps the types.
LEMMA Next_Type ==
    ASSUME AccountBounds, TypeInv, [Next]_vars
    PROVE  TypeInv'
<1>1. ASSUME NEW t \in Threads, Asked(t) \/ Steps(t)
      PROVE  TypeInv'
  <2>1. CASE Asked(t)
    BY <2>1, AskCheck_Type, Enroll_Type, AskToken_Type, AskRemove_Type DEF Asked
  <2>2. CASE CheckSteps(t)
    BY <2>2, Check_Type, Background_Type, FlagPasswordChanged_Type DEF CheckSteps
  <2>3. CASE SignInSteps(t)
    BY <2>3, SignIn_Type, MintToken_Type, SignInRefused_Type, SignInSecondFactor_Type,
       SignInAccepted_Type, SetVerifier_Type, Rotate_Type, EndOnline_Type, Revoked_Type,
       LockVerifier_Type DEF SignInSteps
  <2>4. CASE TokenSteps(t)
    BY <2>4, Token_Type, MintAppToken_Type DEF TokenSteps
  <2>5. CASE RemoveSteps(t)
    BY <2>5, Remove_Type, RemoveLocks_Type, RemoveForgets_Type, FinishRemoval_Type, RemoveFile_Type
       DEF RemoveSteps
  <2>6. CASE SetupSteps(t)
    BY <2>6, EnrollSignsIn_Type, Commit_Type, CommitStores_Type, CommitVerifies_Type DEF SetupSteps
  <2> QED BY <1>1, <2>1, <2>2, <2>3, <2>4, <2>5, <2>6 DEF Steps
<1>2. CASE UNCHANGED vars
  BY <1>2 DEF vars, oxyVars, machineVars, history, TypeInv, TypeOK, Shapes, Locks, FileIssued, At
<1> QED BY <1>1, <1>2, Other_Type DEF Next

\* Type correctness, and both locks held by threads at work: for any threads,
\* passwords and kinds of calls.
THEOREM AccountPlatform_TypeOK ==
    ASSUME AccountBounds
    PROVE  Spec => []TypeOK
<1>1. Init => TypeInv
  BY Init_Type
<1>2. TypeInv /\ [Next]_vars => TypeInv'
  BY Next_Type
<1>3. TypeInv => TypeOK
  BY DEF TypeInv
<1> QED BY <1>1, <1>2, <1>3, PTL DEF Spec

-----------------------------------------------------------------------------
(* What each step does, as far as the invariants below see it.               *)

Others(t) == \A u \in Threads \ {t} : calls'[u] = calls[u]
Answers(t) == Others(t) /\ calls'[t].at = "idle"
\* The thread goes on to the stage s with the credentials it has.
Moves(t, s) == /\ Others(t) /\ calls'[t].at = s
               /\ calls'[t].old = calls[t].old /\ calls'[t].new = calls[t].new
               /\ calls'[t].before = calls[t].before
Faulty == faults \in Nat /\ faults' = faults + 1

\* Stages with no credential in hand, and those nothing depends on being left.
Plain == {"idle", "checking", "spawned", "flagging", "queued", "locking", "asking", "leaving",
          "enrolling"}
Loose == Plain \cup {"minting", "signing", "revoking", "mintingToken"}

\* A step that credentials do not notice.
Quiet ==
    /\ UNCHANGED <<issued, live, user, cached, stray>>
    /\ UNCHANGED faults \/ Faulty
    /\ CredentialOf(file') = CredentialOf(file) /\ (file' = None <=> file = None)
    /\ (\E u \in Threads : HoldsMachine(calls[u])) => UNCHANGED file
    /\ \A u \in Threads : \/ calls'[u] = calls[u]
                          \/ calls[u].at \in Loose /\ calls'[u].at \in Plain

\* An undone setup has put back what there was, unless a fault kept it from that.
Undone(t) ==
    /\ Moves(t, "ending")
    /\ \/ file' = calls[t].before /\ UNCHANGED stray
       \/ /\ faults' > 0 /\ UNCHANGED file
          /\ stray' = stray \cup (({CredentialOf(calls[t].before)} \ {CredentialOf(file)}) \cap live)

\* A thread's new call, and nobody else's.
LEMMA Goes_Is ==
    ASSUME TypeInv, NEW t \in Threads, NEW c, Goes(t, c)
    PROVE  Others(t) /\ calls'[t] = c
BY DEF TypeInv, TypeOK, Goes, Others

\* A thread's next stage, its credentials kept.
LEMMA GoesTo_Is ==
    ASSUME TypeInv, NEW t \in Threads, NEW s, GoesTo(t, s)
    PROVE  Moves(t, s)
<1>1. calls[t] \in Call
  BY DEF TypeInv, TypeOK
<1>2. Others(t) /\ calls'[t] = [calls[t] EXCEPT !.at = s]
  BY Goes_Is DEF GoesTo
<1> QED BY <1>1, <1>2 DEF Moves, Call

\* A thread's reply.
LEMMA Replied_Is ==
    ASSUME TypeInv, NEW t \in Threads, Replied(t)
    PROVE  Answers(t)
BY Goes_Is DEF Replied, Answers, Idle

\* Locks are held by one thread.
LEMMA Locks_One ==
    ASSUME AccountBounds, TypeInv
    PROVE  /\ \A t, u \in Threads :
                 /\ HoldsOnline(calls[t]) /\ HoldsOnline(calls[u]) => t = u
                 /\ HoldsMachine(calls[t]) /\ HoldsMachine(calls[u]) => t = u
           /\ machine = None => \A u \in Threads : ~HoldsMachine(calls[u])
           /\ onlineCalls = None => \A u \in Threads : ~HoldsOnline(calls[u])
BY DEF TypeInv, Locks, AccountBounds

\* A step of a thread alone, with no credential in hand before or after.
LEMMA Quiet_Step ==
    ASSUME AccountBounds, TypeInv, NEW t \in Threads, Others(t),
           calls[t].at \in Loose, calls'[t].at \in Plain,
           UNCHANGED <<issued, live, user, cached, stray>>, UNCHANGED faults \/ Faulty,
           \/ UNCHANGED file
           \/ /\ machine = None /\ file # None
              /\ \E b \in BOOLEAN : file' = [file EXCEPT !.changed = b]
    PROVE  Quiet
<1>1. CASE UNCHANGED file
  BY <1>1 DEF Quiet, Others
<1>2. CASE /\ machine = None /\ file # None
           /\ \E b \in BOOLEAN : file' = [file EXCEPT !.changed = b]
  <2>1. PICK b \in BOOLEAN : file' = [file EXCEPT !.changed = b]
    BY <1>2
  <2>2. file \in Enrollment
    BY <1>2, Thread_Is DEF Kept
  <2>3. file' \in Enrollment /\ file'.credential = file.credential
    BY <2>1, <2>2 DEF Enrollment
  <2>4. CredentialOf(file') = CredentialOf(file) /\ (file' = None <=> file = None)
    BY <1>2, <2>3 DEF CredentialOf, AccountBounds
  <2>5. \A u \in Threads : ~HoldsMachine(calls[u])
    BY <1>2, Locks_One
  <2> QED BY <2>4, <2>5 DEF Quiet, Others
<1> QED BY <1>1, <1>2

\* Calls asked, and answers that change nothing held.
LEMMA Asked_Quiet ==
    ASSUME AccountBounds, TypeInv, NEW t \in Threads, Asked(t)
    PROVE  Quiet
<1>1. ASSUME NEW p \in Passwords, AskCheck(t, p)
      PROVE  Quiet
  <2>1. Others(t) /\ calls'[t].at = "checking"
    BY <1>1 DEF AskCheck, Goes, Others, TypeInv, TypeOK
  <2> QED BY <1>1, <2>1, Quiet_Step DEF AskCheck, At, Loose, Plain, oxyVars, machineVars
<1>2. ASSUME NEW p \in Passwords, Enroll(t, p)
      PROVE  Quiet
  <2>1. Others(t) /\ calls'[t].at = "enrolling"
    BY <1>2 DEF Enroll, Goes, Others, TypeInv, TypeOK
  <2> QED BY <1>2, <2>1, Quiet_Step DEF Enroll, At, Loose, Plain, oxyVars, machineVars
<1>3. CASE AskToken(t)
  <2>1. Others(t) /\ calls'[t].at = "asking"
    BY <1>3 DEF AskToken, Goes, Others, TypeInv, TypeOK
  <2> QED BY <1>3, <2>1, Quiet_Step DEF AskToken, At, Loose, Plain, oxyVars, machineVars
<1>4. CASE AskRemove(t)
  <2>1. Others(t) /\ calls'[t].at = "leaving"
    BY <1>4 DEF AskRemove, Goes, Others, TypeInv, TypeOK
  <2> QED BY <1>4, <2>1, Quiet_Step DEF AskRemove, At, Loose, Plain, oxyVars, machineVars
<1> QED BY <1>1, <1>2, <1>3, <1>4 DEF Asked

\* check and its background change nothing held.
LEMMA CheckSteps_Quiet ==
    ASSUME AccountBounds, TypeInv, NEW t \in Threads, CheckSteps(t)
    PROVE  Quiet
<1>1. CASE Check(t)
  <2>1. calls[t].at = "checking" /\ UNCHANGED <<issued, live, user, cached, stray, faults, file>>
    BY <1>1 DEF Check, At, oxyVars, machineVars, history
  <2>2. CASE Replied(t)
    BY <2>1, <2>2, Replied_Is, Quiet_Step DEF Answers, Loose, Plain
  <2>3. CASE \E v \in BOOLEAN : Goes(t, [calls[t] EXCEPT !.at = "queued", !.setVerifier = v])
    <3>1. Others(t) /\ calls'[t].at = "queued"
      BY <2>3 DEF Goes, Others, TypeInv, TypeOK
    <3> QED BY <2>1, <3>1, Quiet_Step DEF Loose, Plain
  <2>4. CASE GoesTo(t, "queued")
    BY <2>1, <2>4, GoesTo_Is, Quiet_Step DEF Moves, Loose, Plain
  <2>5. ASSUME NEW b \in Threads, calls[b].at = "idle", b # t,
               calls' = [calls EXCEPT ![t] = Idle,
                           ![b] = [Idle EXCEPT !.kind = "background", !.at = "spawned",
                                               !.password = calls[t].password]]
        PROVE  Quiet
    <3>1. /\ calls'[t].at = "idle" /\ calls'[b].at = "spawned"
          /\ \A u \in Threads \ {t, b} : calls'[u] = calls[u]
      BY <2>5 DEF TypeInv, TypeOK, Idle
    <3> QED BY <2>1, <2>5, <3>1 DEF Quiet, Loose, Plain
  <2> QED BY <1>1, <2>2, <2>3, <2>4, <2>5 DEF Check
<1>2. CASE Background(t)
  <2>1. calls[t].at = "spawned" /\ UNCHANGED <<issued, live, user, cached, stray, faults, file>>
    BY <1>2 DEF Background, At, oxyVars, machineVars, history
  <2>2. CASE Replied(t)
    BY <2>1, <2>2, Replied_Is, Quiet_Step DEF Answers, Loose, Plain
  <2>3. CASE Goes(t, [calls[t] EXCEPT !.at = "queued", !.before = file])
    <3>1. Others(t) /\ calls'[t].at = "queued"
      BY <2>3 DEF Goes, Others, TypeInv, TypeOK
    <3> QED BY <2>1, <3>1, Quiet_Step DEF Loose, Plain
  <2> QED BY <1>2, <2>2, <2>3 DEF Background
<1>3. CASE FlagPasswordChanged(t)
  <2>1. /\ calls[t].at = "flagging" /\ UNCHANGED <<issued, live, user, cached, stray>>
        /\ machine = None /\ Replied(t)
    BY <1>3 DEF FlagPasswordChanged, At, oxyVars
  <2>2. UNCHANGED faults \/ Faulty
    BY <1>3 DEF FlagPasswordChanged, Fault, Faulty, TypeInv, TypeOK
  <2>3. \/ UNCHANGED file
        \/ file # None /\ \E b \in BOOLEAN : file' = [file EXCEPT !.changed = b]
    BY <1>3 DEF FlagPasswordChanged, Rewrite, StillHolds
  <2> QED BY <2>1, <2>2, <2>3, Replied_Is, Quiet_Step DEF Answers, Loose, Plain
<1> QED BY <1>1, <1>2, <1>3 DEF CheckSteps

\* A call of the account concluded lets nothing else go.
LEMMA Concludes_Is ==
    ASSUME AccountBounds, TypeInv, NEW t \in Threads, NEW r, Concludes(t, r)
    PROVE  Others(t) /\ calls'[t].at \in {"idle", "flagging"}
<1>1. CASE GoesTo(t, "flagging")
  BY <1>1, GoesTo_Is DEF Moves
<1>2. CASE Replied(t)
  BY <1>2, Replied_Is DEF Answers
<1> QED BY <1>1, <1>2 DEF Concludes

\* A call that got nowhere has changed nothing held.
LEMMA Concludes_Quiet ==
    ASSUME AccountBounds, TypeInv, NEW t \in Threads, NEW r, Concludes(t, r),
           calls[t].at \in Loose \cup {"locking"}, UNCHANGED <<issued, live, user, cached, stray, file>>,
           UNCHANGED faults \/ Faulty
    PROVE  Quiet
BY Concludes_Is, Quiet_Step DEF Loose, Plain

\* Neither a refused sign-in, one that needs the authenticator nor a verifier locked.
LEMMA SignIn_Quiet ==
    ASSUME AccountBounds, TypeInv, NEW t \in Threads, SignInRefused(t) \/ SignInSecondFactor(t) \/ LockVerifier(t)
    PROVE  Quiet
<1>1. CASE SignInRefused(t)
  <2>1. PICK r \in {"Offline", "WrongPassword"} : Concludes(t, r)
    BY <1>1 DEF SignInRefused
  <2> QED BY <1>1, Concludes_Quiet DEF SignInRefused, At, Loose, oxyVars, machineVars
<1>2. CASE SignInSecondFactor(t)
  <2>1. PICK r \in {"SecondFactorRequired", "PasswordRight"} : Concludes(t, r)
    BY <1>2 DEF SignInSecondFactor
  <2>2. Others(t) /\ calls'[t].at \in Plain
    BY <2>1, Concludes_Is DEF Plain
  <2>3. \/ UNCHANGED file
        \/ /\ machine = None /\ file # None
           /\ \E b \in BOOLEAN : file' = [file EXCEPT !.changed = b]
    BY <1>2 DEF SignInSecondFactor, StillHolds
  <2> QED BY <1>2, <2>2, <2>3, Quiet_Step DEF SignInSecondFactor, At, Loose, oxyVars, history
<1>3. CASE LockVerifier(t)
  <2>1. Concludes(t, "Revoked") /\ calls[t].at = "locking"
    BY <1>3 DEF LockVerifier, At
  <2>2. UNCHANGED faults \/ Faulty
    BY <1>3 DEF LockVerifier, Fault, Faulty, TypeInv, TypeOK
  <2> QED BY <1>3, <2>1, <2>2, Concludes_Quiet DEF LockVerifier, oxyVars
<1> QED BY <1>1, <1>2, <1>3

\* sign_in holds on to the credential it read.
LEMMA SignIn_Is ==
    ASSUME AccountBounds, TypeInv, NEW t \in Threads, SignIn(t)
    PROVE  \/ Quiet
           \/ /\ UNCHANGED <<file, live, issued, stray, cached, user, faults>> /\ Others(t)
              /\ calls[t].at = "queued" /\ calls'[t].at = "minting"
              /\ calls'[t].old = CredentialOf(file) /\ calls'[t].old # None
<1>1. calls[t].at = "queued" /\ UNCHANGED <<file, live, issued, stray, cached, user, faults>>
  BY DEF SignIn, At, oxyVars, machineVars, history
<1>2. CASE CredentialOf(file) = None
  BY <1>1, <1>2, Replied_Is, Quiet_Step DEF SignIn, Answers, Loose, Plain
<1>3. CASE CredentialOf(file) # None
  <2>1. Goes(t, [calls[t] EXCEPT !.at = "minting", !.old = file.credential,
                                 !.flagged = file.changed])
    BY <1>3 DEF SignIn
  <2>2. Others(t) /\ calls'[t].at = "minting" /\ calls'[t].old = file.credential
    BY <2>1 DEF Goes, Others, TypeInv, TypeOK
  <2> QED BY <1>1, <1>3, <2>2 DEF CredentialOf
<1> QED BY <1>2, <1>3

\* mint_token tells whether the device is live.
LEMMA MintToken_Is ==
    ASSUME AccountBounds, TypeInv, NEW t \in Threads, MintToken(t)
    PROVE  \/ Quiet
           \/ /\ UNCHANGED <<file, live, issued, stray, cached, user, faults>> /\ calls[t].at = "minting"
              /\ \/ Moves(t, "signing") /\ calls[t].old \in live
                 \/ Moves(t, "revoking") /\ calls[t].old \notin live
<1>1. calls[t].at = "minting" /\ UNCHANGED <<file, live, issued, stray, cached, user, faults>>
  BY DEF MintToken, At, oxyVars, machineVars, history
<1>2. CASE Concludes(t, "Offline")
  BY <1>1, <1>2, Concludes_Quiet DEF Loose
<1>3. CASE GoesTo(t, IF calls[t].old \in live THEN "signing" ELSE "revoking")
  BY <1>1, <1>3, GoesTo_Is
<1> QED BY <1>2, <1>3 DEF MintToken

\* sign_in_password accepted: the old credential is retired, a new one issued.
LEMMA SignInAccepted_Is ==
    ASSUME AccountBounds, TypeInv, NEW t \in Threads, SignInAccepted(t)
    PROVE  /\ calls[t].at = "signing" /\ calls[t].old \in live /\ UNCHANGED <<file, cached, user>>
           /\ issued' = issued + 1 /\ live' = (live \ {calls[t].old}) \cup {issued'}
           /\ Others(t)
           /\ \/ /\ calls'[t].at \in {"verifying", "rotating"} /\ calls'[t].new = issued'
                 /\ calls'[t].old = calls[t].old /\ calls'[t].before = calls[t].before
                 /\ UNCHANGED <<stray, faults>>
              \/ /\ calls'[t].at \in {"idle", "flagging"}
                 /\ Faulty /\ stray' = stray \cup {issued'}
<1>1. /\ calls[t].at = "signing" /\ calls[t].old \in live /\ UNCHANGED <<file, cached, user>>
      /\ issued' = issued + 1 /\ live' = (live \ {calls[t].old}) \cup {issued'}
  BY DEF SignInAccepted, At, machineVars
<1>2. ASSUME NEW s \in {"verifying", "rotating"}, UNCHANGED <<stray, faults>>,
             Goes(t, [calls[t] EXCEPT !.new = issued', !.at = s])
      PROVE  /\ Others(t) /\ calls'[t].at = s /\ calls'[t].new = issued'
             /\ calls'[t].old = calls[t].old /\ calls'[t].before = calls[t].before
  BY <1>2 DEF Goes, Others, TypeInv, TypeOK
<1>3. CASE Fault /\ Concludes(t, "Offline") /\ Forgets({issued'})
  <2>1. Others(t) /\ calls'[t].at \in {"idle", "flagging"}
    BY <1>3, Concludes_Is
  <2>2. Faulty /\ stray' = stray \cup {issued'}
    BY <1>1, <1>3 DEF Fault, Faulty, Forgets, TypeInv, TypeOK
  <2> QED BY <1>1, <2>1, <2>2
<1> QED BY <1>1, <1>2, <1>3 DEF SignInAccepted

\* set_verifier goes on to rotate.
LEMMA SetVerifier_Is ==
    ASSUME AccountBounds, TypeInv, NEW t \in Threads, SetVerifier(t)
    PROVE  /\ UNCHANGED <<file, live, issued, stray, cached, user, faults>>
           /\ calls[t].at = "verifying" /\ Moves(t, "rotating")
BY GoesTo_Is DEF SetVerifier, At, oxyVars, history

\* rotate, written or not.
LEMMA Rotate_Is ==
    ASSUME AccountBounds, TypeInv, NEW t \in Threads, Rotate(t)
    PROVE  /\ calls[t].at = "rotating" /\ machine = None /\ UNCHANGED <<live, issued, stray, user>>
           /\ \/ /\ StillHolds(calls[t].old) /\ CredentialOf(file') = calls[t].new /\ file' # None
                 /\ cached' = None /\ UNCHANGED faults
                 /\ Others(t) /\ calls'[t].at \in {"idle", "flagging"}
              \/ /\ UNCHANGED <<file, cached>> /\ Moves(t, "ending")
                 /\ (~StillHolds(calls[t].old) /\ UNCHANGED faults) \/ Faulty
<1>1. calls[t].at = "rotating" /\ machine = None /\ UNCHANGED <<live, issued, stray, user>>
  BY DEF Rotate, At, oxyVars
<1>2. CASE /\ Rewrite(calls[t].old, [credential |-> calls[t].new, changed |-> FALSE])
           /\ cached' = None /\ Concludes(t, "Accepted") /\ UNCHANGED faults
  <2>1. StillHolds(calls[t].old) /\ file' = [credential |-> calls[t].new, changed |-> FALSE]
    BY <1>2 DEF Rewrite
  <2>2. calls[t].new \in Credentials
    BY <1>1, Thread_Is DEF Shape, News, Credentials, AccountBounds
  <2>3. file' \in Enrollment
    BY <2>1, <2>2 DEF Enrollment
  <2>4. CredentialOf(file') = calls[t].new /\ file' # None
    BY <2>1, <2>3 DEF CredentialOf, AccountBounds
  <2>5. Others(t) /\ calls'[t].at \in {"idle", "flagging"}
    BY <1>2, Concludes_Is
  <2> QED BY <1>1, <1>2, <2>1, <2>4, <2>5
<1>3. CASE /\ UNCHANGED <<file, cached>> /\ GoesTo(t, "ending")
           /\ (~StillHolds(calls[t].old) /\ UNCHANGED faults) \/ Fault
  <2>1. Moves(t, "ending")
    BY <1>3, GoesTo_Is
  <2>2. Fault => Faulty
    BY DEF Fault, Faulty, TypeInv, TypeOK
  <2> QED BY <1>1, <1>3, <2>1, <2>2
<1> QED BY <1>2, <1>3 DEF Rotate

\* end_online ends the credential in hand, or it is left.
LEMMA EndOnline_Is ==
    ASSUME AccountBounds, TypeInv, NEW t \in Threads, EndOnline(t)
    PROVE  /\ calls[t].at = "ending" /\ UNCHANGED <<file, issued, cached, user>>
           /\ Others(t) /\ calls'[t].at \in {"idle", "flagging"}
           /\ \/ live' = live \ {calls[t].new} /\ UNCHANGED <<stray, faults>>
              \/ Faulty /\ UNCHANGED live /\ stray' = stray \cup ({calls[t].new} \cap live)
<1>1. calls[t].at = "ending" /\ UNCHANGED <<file, issued, cached, user>>
  BY DEF EndOnline, At, machineVars
<1>2. Others(t) /\ calls'[t].at \in {"idle", "flagging"}
  <2>1. CASE Replied(t)
    BY <2>1, Replied_Is DEF Answers
  <2>2. CASE Concludes(t, "Accepted")
    BY <2>2, Concludes_Is
  <2> QED BY <2>1, <2>2 DEF EndOnline
<1>3. \/ live' = live \ {calls[t].new} /\ UNCHANGED <<stray, faults>>
      \/ Faulty /\ UNCHANGED live /\ stray' = stray \cup ({calls[t].new} \cap live)
  BY DEF EndOnline, Forgets, Fault, Faulty, TypeInv, TypeOK
<1> QED BY <1>1, <1>2, <1>3

\* What the machine forgets of a credential.
LEMMA Forgotten_Is ==
    ASSUME AccountBounds, TypeInv, NEW t \in Threads, file' = [credential |-> None, changed |-> FALSE]
    PROVE  CredentialOf(file') = None /\ file' # None
<1>1. file' \in Enrollment
  BY DEF Enrollment
<1> QED BY <1>1 DEF CredentialOf, AccountBounds

\* revoked forgets the credential, or changes nothing held.
LEMMA Revoked_Is ==
    ASSUME AccountBounds, TypeInv, NEW t \in Threads, Revoked(t)
    PROVE  \/ Quiet
           \/ /\ calls[t].at = "revoking" /\ machine = None /\ StillHolds(calls[t].old)
              /\ UNCHANGED <<live, issued, stray, user, faults>>
              /\ CredentialOf(file') = None /\ file' # None /\ cached' = None
              /\ Moves(t, "locking")
<1>1. /\ calls[t].at = "revoking" /\ machine = None /\ UNCHANGED <<live, issued, stray, user>>
  BY DEF Revoked, At, oxyVars
<1>2. CASE /\ Rewrite(calls[t].old, [credential |-> None, changed |-> FALSE])
           /\ cached' = None /\ GoesTo(t, "locking") /\ UNCHANGED faults
  <2>1. StillHolds(calls[t].old) /\ file' = [credential |-> None, changed |-> FALSE]
    BY <1>2 DEF Rewrite
  <2> QED BY <1>1, <1>2, <2>1, Forgotten_Is, GoesTo_Is
<1>3. CASE Concludes(t, "Revoked") /\ UNCHANGED <<file, cached>> /\ (UNCHANGED faults \/ Fault)
  <2>1. UNCHANGED faults \/ Faulty
    BY <1>3 DEF Fault, Faulty, TypeInv, TypeOK
  <2> QED BY <1>1, <1>3, <2>1, Concludes_Quiet DEF Loose
<1> QED BY <1>2, <1>3 DEF Revoked

\* token forgets the kept one before it asks for another.
LEMMA Token_Is ==
    ASSUME AccountBounds, TypeInv, NEW t \in Threads, Token(t)
    PROVE  \/ Quiet
           \/ /\ UNCHANGED <<file, live, issued, stray, user, faults>> /\ cached' = None
              /\ calls[t].at = "asking" /\ Others(t) /\ calls'[t].at = "mintingToken"
              /\ calls'[t].old = CredentialOf(file) /\ StillHolds(calls'[t].old)
<1>1. calls[t].at = "asking" /\ UNCHANGED <<file, live, issued, stray, user, faults>>
  BY DEF Token, At, oxyVars, machineVars, history
<1>2. CASE Replied(t) /\ UNCHANGED cached
  BY <1>1, <1>2, Replied_Is, Quiet_Step DEF Answers, Loose, Plain
<1>3. CASE /\ file # None /\ cached' = None
           /\ Goes(t, [calls[t] EXCEPT !.at = "mintingToken", !.old = file.credential])
  <2>1. Others(t) /\ calls'[t].at = "mintingToken" /\ calls'[t].old = file.credential
    BY <1>3 DEF Goes, Others, TypeInv, TypeOK
  <2> QED BY <1>1, <1>3, <2>1 DEF CredentialOf, StillHolds
<1> QED BY <1>2, <1>3 DEF Token

\* A token minted is kept; a device gone is forgotten.
LEMMA MintAppToken_Is ==
    ASSUME AccountBounds, TypeInv, NEW t \in Threads, MintAppToken(t)
    PROVE  \/ Quiet
           \/ /\ UNCHANGED <<file, live, issued, stray, user, faults>>
              /\ calls[t].at = "mintingToken"
              /\ \/ /\ cached' = calls[t].old /\ Others(t)
                    /\ calls'[t].at \in {"idle", "flagging"}
                 \/ UNCHANGED cached /\ Moves(t, "revoking") /\ calls[t].old \notin live
<1>1. calls[t].at = "mintingToken" /\ UNCHANGED <<file, live, issued, stray, user, faults>>
  BY DEF MintAppToken, At, oxyVars, machineVars, history
<1>2. CASE Concludes(t, "Offline") /\ UNCHANGED cached
  BY <1>1, <1>2, Concludes_Quiet DEF Loose
<1>3. CASE cached' = calls[t].old /\ Concludes(t, "Accepted")
  BY <1>1, <1>3, Concludes_Is
<1>4. CASE calls[t].old \notin live /\ GoesTo(t, "revoking") /\ UNCHANGED cached
  BY <1>1, <1>4, GoesTo_Is
<1> QED BY <1>2, <1>3, <1>4 DEF MintAppToken

\* remove ends the device the file holds, or leaves it.
LEMMA Remove_Is ==
    ASSUME AccountBounds, TypeInv, NEW t \in Threads, Remove(t)
    PROVE  \/ Quiet
           \/ /\ UNCHANGED <<file, issued, cached, user>>
              /\ calls[t].at = "leaving" /\ Moves(t, "shutting")
              /\ \/ live' = live \ {CredentialOf(file)} /\ UNCHANGED <<stray, faults>>
                 \/ Faulty /\ UNCHANGED live /\ stray' = stray \cup ({CredentialOf(file)} \cap live)
<1>1. calls[t].at = "leaving" /\ UNCHANGED <<file, issued, cached, user>>
  BY DEF Remove, At, machineVars
<1>2. CASE file = None
  <2>1. Replied(t) /\ UNCHANGED <<live, faults, stray>>
    BY <1>2 DEF Remove
  <2> QED BY <1>1, <2>1, Replied_Is, Quiet_Step DEF Answers, Loose, Plain
<1>3. CASE file # None
  <2>1. CredentialOf(file) = file.credential
    BY <1>3 DEF CredentialOf
  <2>2. \/ live' = live \ {file.credential} /\ UNCHANGED <<stray, faults>>
        \/ Faulty /\ UNCHANGED live /\ stray' = stray \cup ({file.credential} \cap live)
    BY <1>3 DEF Remove, Forgets, Fault, Faulty, TypeInv, TypeOK
  <2>3. Moves(t, "shutting")
    BY <1>3, GoesTo_Is DEF Remove
  <2> QED BY <1>1, <2>1, <2>2, <2>3
<1> QED BY <1>2, <1>3

\* The removed account's verifier is nobody else's.
LEMMA RemoveLocks_Is ==
    ASSUME AccountBounds, TypeInv, NEW t \in Threads, RemoveLocks(t)
    PROVE  /\ UNCHANGED <<file, live, issued, stray, cached, user>> /\ (UNCHANGED faults \/ Faulty)
           /\ calls[t].at = "shutting" /\ Moves(t, "forgetting")
BY GoesTo_Is DEF RemoveLocks, At, oxyVars, Fault, Faulty, TypeInv, TypeOK

\* remove forgets the credential, or has failed.
LEMMA RemoveForgets_Is ==
    ASSUME AccountBounds, TypeInv, NEW t \in Threads, RemoveForgets(t)
    PROVE  /\ calls[t].at = "forgetting" /\ machine = None /\ UNCHANGED <<live, issued, stray, user>>
           /\ \/ /\ CredentialOf(file') = None /\ file' # None /\ cached' = None
                 /\ UNCHANGED faults /\ Moves(t, "finishing")
              \/ Faulty /\ UNCHANGED <<file, cached>> /\ Answers(t)
<1>1. Fault => Faulty
  BY DEF Fault, Faulty, TypeInv, TypeOK
<1> QED BY <1>1, Forgotten_Is, GoesTo_Is, Replied_Is DEF RemoveForgets, At, oxyVars

\* finish_removal: the user goes, or is still there.
LEMMA FinishRemoval_Is ==
    ASSUME AccountBounds, TypeInv, NEW t \in Threads, FinishRemoval(t)
    PROVE  /\ calls[t].at = "finishing" /\ UNCHANGED <<file, live, issued, stray, cached, faults>>
           /\ Moves(t, "unlisting") \/ Answers(t)
BY GoesTo_Is, Replied_Is DEF FinishRemoval, At, oxyVars, history

\* The removed account's file goes, unless it cannot be written.
LEMMA RemoveFile_Is ==
    ASSUME AccountBounds, TypeInv, NEW t \in Threads, RemoveFile(t)
    PROVE  /\ calls[t].at = "unlisting" /\ machine = None /\ UNCHANGED <<live, issued, stray, user>>
           /\ cached' = None /\ Answers(t)
           /\ (file' = None /\ UNCHANGED faults) \/ (UNCHANGED file /\ Faulty)
<1>1. Fault => Faulty
  BY DEF Fault, Faulty, TypeInv, TypeOK
<1> QED BY <1>1, Replied_Is DEF RemoveFile, At, oxyVars

\* enroll is given a device of its own.
LEMMA EnrollSignsIn_Is ==
    ASSUME AccountBounds, TypeInv, NEW t \in Threads, EnrollSignsIn(t)
    PROVE  \/ Quiet
           \/ /\ calls[t].at = "enrolling" /\ UNCHANGED <<file, cached, user>> /\ Others(t)
              /\ issued' = issued + 1 /\ live' = live \cup {issued'}
              /\ \/ /\ calls'[t].at = "committing" /\ calls'[t].new = issued'
                    /\ UNCHANGED <<stray, faults>>
                 \/ calls'[t].at = "idle" /\ Faulty /\ stray' = stray \cup {issued'}
<1>1. calls[t].at = "enrolling" /\ UNCHANGED <<file, cached, user>>
  BY DEF EnrollSignsIn, At, machineVars
<1>2. CASE Replied(t) /\ UNCHANGED <<issued, live, faults, stray>>
  BY <1>1, <1>2, Replied_Is, Quiet_Step DEF Answers, Loose, Plain
<1>3. ASSUME issued' = issued + 1, live' = live \cup {issued'},
             Goes(t, [calls[t] EXCEPT !.at = "committing", !.new = issued'])
      PROVE  Others(t) /\ calls'[t].at = "committing" /\ calls'[t].new = issued'
  BY <1>3 DEF Goes, Others, TypeInv, TypeOK
<1>4. ASSUME live' = live \cup {issued'}, Fault, Replied(t), Forgets({issued'})
      PROVE  Others(t) /\ calls'[t].at = "idle" /\ Faulty /\ stray' = stray \cup {issued'}
  <2>1. Others(t) /\ calls'[t].at = "idle"
    BY <1>4, Replied_Is DEF Answers
  <2>2. Faulty /\ stray' = stray \cup {issued'}
    BY <1>4 DEF Fault, Faulty, Forgets, TypeInv, TypeOK
  <2> QED BY <2>1, <2>2
<1> QED BY <1>1, <1>2, <1>3, <1>4 DEF EnrollSignsIn

\* commit takes the machine with the enrollment it replaces, or goes to end its device.
LEMMA Commit_Is ==
    ASSUME AccountBounds, TypeInv, NEW t \in Threads, Commit(t)
    PROVE  /\ calls[t].at = "committing" /\ machine = None
           /\ UNCHANGED <<file, live, issued, stray, cached, faults>>
           /\ Others(t) /\ calls'[t].new = calls[t].new
           /\ \/ calls'[t].at = "ending"
              \/ calls'[t].at = "storing" /\ calls'[t].before = file
<1>1. /\ calls[t].at = "committing" /\ machine = None
      /\ UNCHANGED <<file, live, issued, stray, cached, faults>>
  BY DEF Commit, At, oxyVars, history
<1>2. CASE GoesTo(t, "ending")
  BY <1>1, <1>2, GoesTo_Is DEF Moves
<1>3. CASE Goes(t, [calls[t] EXCEPT !.at = "storing", !.before = file])
  <2>1. /\ Others(t) /\ calls'[t].at = "storing" /\ calls'[t].before = file
        /\ calls'[t].new = calls[t].new
    BY <1>3 DEF Goes, Others, TypeInv, TypeOK
  <2> QED BY <1>1, <2>1
<1>4. CASE Takable /\ ~user /\ GoesTo(t, "storing")
  <2>1. calls[t].before = None /\ file = None
    BY <1>1, <1>4, Thread_Is DEF Shape, Takable
  <2> QED BY <1>1, <1>4, <2>1, GoesTo_Is DEF Moves
<1> QED BY <1>2, <1>3, <1>4 DEF Commit

\* A setup undone.
LEMMA Undo_Is ==
    ASSUME AccountBounds, TypeInv, NEW t \in Threads, Undo(t), UNCHANGED live
    PROVE  Undone(t)
BY GoesTo_Is DEF Undo, Undone, Forgets

\* commit stores the enrollment, or is undone.
LEMMA CommitStores_Is ==
    ASSUME AccountBounds, TypeInv, NEW t \in Threads, CommitStores(t)
    PROVE  /\ calls[t].at = "storing" /\ UNCHANGED <<live, issued, cached>>
           /\ \/ /\ CredentialOf(file') = calls[t].new /\ file' # None /\ Moves(t, "settingUp")
                 /\ UNCHANGED <<user, faults, stray>>
              \/ Faulty /\ Undone(t)
<1>1. calls[t].at = "storing" /\ UNCHANGED <<live, issued, cached>>
  BY DEF CommitStores, At, oxyVars
<1>2. CASE /\ file' = [credential |-> calls[t].new, changed |-> FALSE] /\ GoesTo(t, "settingUp")
           /\ UNCHANGED <<user, faults, stray>>
  <2>1. calls[t].new \in Credentials
    BY <1>1, Thread_Is DEF Shape, News, Credentials, AccountBounds
  <2>2. file' \in Enrollment
    BY <1>2, <2>1 DEF Enrollment
  <2>3. CredentialOf(file') = calls[t].new /\ file' # None
    BY <1>2, <2>2 DEF CredentialOf, AccountBounds
  <2> QED BY <1>1, <1>2, <2>3, GoesTo_Is
<1>3. CASE Fault /\ Undo(t)
  BY <1>1, <1>3, Undo_Is DEF Fault, Faulty, TypeInv, TypeOK
<1> QED BY <1>2, <1>3 DEF CommitStores

\* commit ends what the account had, or is undone.
LEMMA CommitVerifies_Is ==
    ASSUME AccountBounds, TypeInv, NEW t \in Threads, CommitVerifies(t)
    PROVE  /\ calls[t].at = "settingUp" /\ UNCHANGED <<live, issued, cached>>
           /\ \/ /\ UNCHANGED <<file, user, faults, stray>> /\ Others(t)
                 /\ \/ CredentialOf(calls[t].before) = None /\ calls'[t].at = "idle"
                    \/ /\ calls'[t].at = "ending"
                       /\ calls'[t].new = CredentialOf(calls[t].before) /\ calls'[t].new # None
              \/ Faulty /\ Undone(t)
              \/ UNCHANGED faults /\ Undone(t)
<1>1. calls[t].at = "settingUp" /\ UNCHANGED <<live, issued, cached>>
  BY DEF CommitVerifies, At, oxyVars
<1>2. CASE UNCHANGED <<file, user, faults, stray>> /\ CredentialOf(calls[t].before) = None /\ Replied(t)
  BY <1>1, <1>2, Replied_Is DEF Answers
<1>3. CASE /\ UNCHANGED <<file, user, faults, stray>> /\ CredentialOf(calls[t].before) # None
           /\ Goes(t, [calls[t] EXCEPT !.at = "ending", !.new = calls[t].before.credential])
  <2>1. Others(t) /\ calls'[t].at = "ending" /\ calls'[t].new = calls[t].before.credential
    BY <1>3 DEF Goes, Others, TypeInv, TypeOK
  <2> QED BY <1>1, <1>3, <2>1 DEF CredentialOf
<1>4. CASE Undo(t) /\ (Fault \/ (~user /\ UNCHANGED faults))
  <2>1. Undone(t)
    BY <1>1, <1>4, Undo_Is
  <2> QED BY <1>1, <1>4, <2>1 DEF Fault, Faulty, TypeInv, TypeOK
<1> QED BY <1>2, <1>3, <1>4 DEF CommitVerifies

\* What the removal and the setup do to the user.
LEMMA FinishRemoval_User ==
    ASSUME AccountBounds, TypeInv, NEW t \in Threads, FinishRemoval(t)
    PROVE  /\ calls'[t].at = "unlisting" => ~user'
           /\ calls'[t].at = "idle" => user /\ user'
<1>1. CASE ~user' /\ GoesTo(t, "unlisting")
  BY <1>1, GoesTo_Is DEF Moves
<1>2. CASE user /\ user' /\ Replied(t)
  BY <1>2, Replied_Is DEF Answers
<1>3. user /\ UNCHANGED user => user'
  OBVIOUS
<1>4. (~user' /\ GoesTo(t, "unlisting")) \/ (user /\ user' /\ Replied(t))
  BY <1>3, Zenon DEF FinishRemoval
<1> QED BY <1>1, <1>2, <1>4

\* commit goes on only where the account could be taken and its user exists.
LEMMA Commit_User ==
    ASSUME AccountBounds, TypeInv, NEW t \in Threads, Commit(t)
    PROVE  /\ calls'[t].at = "storing" => user' /\ Takable
           /\ calls'[t].at = "ending" => user' = user
<1>1. CASE GoesTo(t, "ending") /\ UNCHANGED user
  BY <1>1, GoesTo_Is DEF Moves
<1>2. CASE Takable /\ user' /\ Goes(t, [calls[t] EXCEPT !.at = "storing", !.before = file])
  <2>1. calls'[t].at = "storing"
    BY <1>2, Thread_Is DEF Goes, Call, TypeInv, TypeOK
  <2> QED BY <1>2, <2>1
<1>3. CASE Takable /\ user' /\ GoesTo(t, "storing")
  <2>1. calls'[t].at = "storing"
    BY <1>3, GoesTo_Is DEF Moves
  <2> QED BY <1>3, <2>1
<1>4. user /\ UNCHANGED user => user'
  OBVIOUS
<1>5. user' = TRUE => user'
  OBVIOUS
<1>6. \/ GoesTo(t, "ending") /\ UNCHANGED user
      \/ Takable /\ user' /\ Goes(t, [calls[t] EXCEPT !.at = "storing", !.before = file])
      \/ Takable /\ user' /\ GoesTo(t, "storing")
  BY <1>4, <1>5, Zenon DEF Commit
<1> QED BY <1>1, <1>2, <1>3, <1>6

\* Without a fault, and with the user there, a setup is not undone.
LEMMA CommitVerifies_User ==
    ASSUME AccountBounds, TypeInv, NEW t \in Threads, CommitVerifies(t), user, UNCHANGED faults
    PROVE  UNCHANGED <<file, user>> /\ Others(t) /\ calls'[t].at \in {"idle", "ending"}
<1>1. ~Fault
  BY DEF Fault, TypeInv, TypeOK
<1>2. UNCHANGED <<file, user>>
  BY <1>1 DEF CommitVerifies
<1> QED BY <1>2, CommitVerifies_Is DEF Undone, Moves

\* A password changed elsewhere is nothing to the machine yet.
LEMMA Unseen_Quiet ==
    ASSUME AccountBounds, TypeInv, PasswordChanges \/ UNCHANGED vars
    PROVE  Quiet
BY DEF Quiet, PasswordChanges, vars, oxyVars, machineVars, history

-----------------------------------------------------------------------------
(* No stray device.                                                          *)

\* A credential a call is answerable for (InHand).
Holding(c, d) == d = c.new \/ (HoldsMachine(c) /\ d = CredentialOf(c.before))

\* What each stage has already let go of, or has nobody else to lose.
StrayShape(t) ==
    /\ calls[t].at \in {"verifying", "rotating", "revoking"} => calls[t].old \notin live
    /\ calls[t].at = "storing" => file = calls[t].before
    /\ calls[t].at = "settingUp" => CredentialOf(file) = calls[t].new
    /\ calls[t].at \in {"shutting", "forgetting"} => CredentialOf(file) \notin live \ stray
    /\ calls[t].at \in {"finishing", "unlisting"} => CredentialOf(file) = None

Answerable(d) == \/ d \in stray \/ d = CredentialOf(file)
                 \/ \E t \in Threads : Holding(calls[t], d)

StrayInv == (\A d \in live : Answerable(d)) /\ (\A t \in Threads : StrayShape(t))

\* An account set up again while it is removed is the known exception.
OneAtATime == ~({"remove", "setup"} \subseteq Kinds)

\* Credentials are numbers, and none is above those issued.
LEMMA Live_Is ==
    ASSUME AccountBounds, TypeInv
    PROVE  /\ \A d \in live \cup stray : d # None /\ d \in Nat /\ d <= issued
           /\ issued \in Nat /\ issued + 1 \notin live \cup stray /\ issued + 1 # None
           /\ CredentialOf(file) # issued + 1
BY DEF TypeInv, TypeOK, FileIssued, AccountBounds

\* What a stage says of its credentials.
LEMMA Hand_Is ==
    ASSUME AccountBounds, TypeInv, NEW u \in Threads
    PROVE  /\ calls[u].at \notin News => calls[u].new = None
           /\ calls[u].at \in Olds => calls[u].old \in Nat /\ calls[u].old <= issued /\ calls[u].old # None
           /\ calls[u].at \in News => calls[u].new \in Nat /\ calls[u].new <= issued /\ calls[u].new # None
           /\ calls[u].at \in Removes => "remove" \in Kinds
           /\ calls[u].at \in Setups => "setup" \in Kinds
<1>1. Shape(calls[u], issued) /\ calls[u] \in Call /\ issued \in Nat
  BY Thread_Is
<1>2. calls[u].kind \in Kinds \cup {"none", "background"}
  BY <1>1 DEF Call
<1> QED BY <1>1, <1>2 DEF Shape, AccountBounds

\* A thread with nothing in hand goes on: what the others hold, they hold.
LEMMA Hand_Kept ==
    ASSUME AccountBounds, TypeInv, NEW t \in Threads, Others(t), calls[t].at \notin News,
           NEW d, d # None, \E u \in Threads : Holding(calls[u], d)
    PROVE  \E u \in Threads : Holding(calls'[u], d)
<1>1. PICK u \in Threads : Holding(calls[u], d)
  OBVIOUS
<1>2. u # t
  BY <1>1, Hand_Is DEF Holding, HoldsMachine, News
<1> QED BY <1>1, <1>2 DEF Others

\* What credentials do not notice.
LEMMA Quiet_Stray ==
    ASSUME AccountBounds, TypeInv, StrayInv, Quiet
    PROVE  StrayInv'
<1>1. ASSUME NEW d \in live'
      PROVE  Answerable(d)'
  <2>1. d \in live /\ d # None
    BY <1>1, Live_Is DEF Quiet
  <2>2. \A u \in Threads : Holding(calls[u], d) => calls'[u] = calls[u]
    BY <2>1, Hand_Is DEF Quiet, Holding, HoldsMachine, Loose, Plain, News
  <2> QED BY <2>2 DEF Quiet, StrayInv, Answerable
<1>2. ASSUME NEW u \in Threads
      PROVE  StrayShape(u)'
  <2>1. CASE calls'[u] = calls[u]
    BY <2>1 DEF Quiet, StrayInv, StrayShape, HoldsMachine
  <2>2. CASE calls'[u].at \in Plain
    BY <2>2 DEF StrayShape, Plain
  <2> QED BY <2>1, <2>2 DEF Quiet
<1> QED BY <1>1, <1>2 DEF StrayInv

\* sign_in reads the held credential: nothing is issued or ended.
LEMMA SignIn_Stray ==
    ASSUME AccountBounds, TypeInv, OneAtATime, StrayInv, NEW t \in Threads, SignIn(t)
    PROVE  StrayInv'
<1>1. CASE Quiet
  BY <1>1, Quiet_Stray
<1>2. CASE ~Quiet
  <2>1. ASSUME NEW d \in live'
        PROVE  Answerable(d)'
    BY <1>2, SignIn_Is, Live_Is, Hand_Is DEF StrayInv, Answerable, Holding, HoldsMachine, Others,
       News
  <2>2. ASSUME NEW u \in Threads
        PROVE  StrayShape(u)'
    BY <1>2, SignIn_Is DEF StrayInv, StrayShape, Others
  <2> QED BY <2>1, <2>2 DEF StrayInv
<1> QED BY <1>1, <1>2

\* mint_token turns to revoking only for a device that is no longer live.
LEMMA MintToken_Stray ==
    ASSUME AccountBounds, TypeInv, OneAtATime, StrayInv, NEW t \in Threads, MintToken(t)
    PROVE  StrayInv'
<1>1. CASE Quiet
  BY <1>1, Quiet_Stray
<1>2. CASE ~Quiet
  <2>1. ASSUME NEW d \in live'
        PROVE  Answerable(d)'
    BY <1>2, MintToken_Is DEF StrayInv, Answerable, Holding, HoldsMachine, Moves, Others
  <2>2. ASSUME NEW u \in Threads
        PROVE  StrayShape(u)'
    BY <1>2, MintToken_Is DEF StrayInv, StrayShape, Moves, Others
  <2> QED BY <2>1, <2>2 DEF StrayInv
<1> QED BY <1>1, <1>2

\* A rotation retires the held credential; the next is in the call's hands, or lost.
LEMMA SignInAccepted_Stray ==
    ASSUME AccountBounds, TypeInv, OneAtATime, StrayInv, NEW t \in Threads, SignInAccepted(t)
    PROVE  StrayInv'
<1>1. ASSUME NEW d \in live'
      PROVE  Answerable(d)'
  BY SignInAccepted_Is, Live_Is, Hand_Is DEF StrayInv, Answerable, Holding, HoldsMachine, Others,
     News
<1>2. ASSUME NEW u \in Threads
      PROVE  StrayShape(u)'
  BY SignInAccepted_Is, Live_Is, Locks_One DEF StrayInv, StrayShape, HoldsOnline, Others
<1> QED BY <1>1, <1>2 DEF StrayInv

\* The verifier is written with the new credential still in hand.
LEMMA SetVerifier_Stray ==
    ASSUME AccountBounds, TypeInv, OneAtATime, StrayInv, NEW t \in Threads, SetVerifier(t)
    PROVE  StrayInv'
<1>1. ASSUME NEW d \in live'
      PROVE  Answerable(d)'
  BY SetVerifier_Is DEF StrayInv, Answerable, Holding, HoldsMachine, Moves, Others
<1>2. ASSUME NEW u \in Threads
      PROVE  StrayShape(u)'
  BY SetVerifier_Is DEF StrayInv, StrayShape, Moves, Others
<1> QED BY <1>1, <1>2 DEF StrayInv

\* rotate writes the new credential over the retired one, or keeps it to end it.
LEMMA Rotate_Stray ==
    ASSUME AccountBounds, TypeInv, OneAtATime, StrayInv, NEW t \in Threads, Rotate(t)
    PROVE  StrayInv'
<1>1. ASSUME NEW d \in live'
      PROVE  Answerable(d)'
  BY Rotate_Is, Locks_One DEF StrayInv, StrayShape, Answerable, Holding, Moves, Others, StillHolds,
     CredentialOf
<1>2. ASSUME NEW u \in Threads
      PROVE  StrayShape(u)'
  BY Rotate_Is, Hand_Is, Locks_One DEF StrayInv, StrayShape, HoldsMachine, HoldsOnline, Moves,
     Others, Olds, StillHolds, CredentialOf
<1> QED BY <1>1, <1>2 DEF StrayInv

\* end_online ends the credential in hand, or leaves it behind.
LEMMA EndOnline_Stray ==
    ASSUME AccountBounds, TypeInv, OneAtATime, StrayInv, NEW t \in Threads, EndOnline(t)
    PROVE  StrayInv'
<1>1. ASSUME NEW d \in live'
      PROVE  Answerable(d)'
  BY EndOnline_Is DEF StrayInv, Answerable, Holding, HoldsMachine, Others
<1>2. ASSUME NEW u \in Threads
      PROVE  StrayShape(u)'
  BY EndOnline_Is DEF StrayInv, StrayShape, Others
<1> QED BY <1>1, <1>2 DEF StrayInv

\* revoked forgets a credential whose device is no longer live.
LEMMA Revoked_Stray ==
    ASSUME AccountBounds, TypeInv, OneAtATime, StrayInv, NEW t \in Threads, Revoked(t)
    PROVE  StrayInv'
<1>1. CASE Quiet
  BY <1>1, Quiet_Stray
<1>2. CASE ~Quiet
  <2>1. ASSUME NEW d \in live'
        PROVE  Answerable(d)'
    BY <1>2, Revoked_Is, Locks_One DEF StrayInv, StrayShape, Answerable, Holding, Moves, Others,
       StillHolds, CredentialOf
  <2>2. ASSUME NEW u \in Threads
        PROVE  StrayShape(u)'
    BY <1>2, Revoked_Is, Live_Is, Locks_One DEF StrayInv, StrayShape, HoldsMachine, Moves, Others
  <2> QED BY <2>1, <2>2 DEF StrayInv
<1> QED BY <1>1, <1>2

\* token reads the held credential.
LEMMA Token_Stray ==
    ASSUME AccountBounds, TypeInv, OneAtATime, StrayInv, NEW t \in Threads, Token(t)
    PROVE  StrayInv'
<1>1. CASE Quiet
  BY <1>1, Quiet_Stray
<1>2. CASE ~Quiet
  <2>1. ASSUME NEW d \in live'
        PROVE  Answerable(d)'
    BY <1>2, Token_Is, Live_Is, Hand_Is DEF StrayInv, Answerable, Holding, HoldsMachine, Others,
       News
  <2>2. ASSUME NEW u \in Threads
        PROVE  StrayShape(u)'
    BY <1>2, Token_Is DEF StrayInv, StrayShape, Others
  <2> QED BY <2>1, <2>2 DEF StrayInv
<1> QED BY <1>1, <1>2

\* A token minted for an application leaves every device as it was.
LEMMA MintAppToken_Stray ==
    ASSUME AccountBounds, TypeInv, OneAtATime, StrayInv, NEW t \in Threads, MintAppToken(t)
    PROVE  StrayInv'
<1>1. CASE Quiet
  BY <1>1, Quiet_Stray
<1>2. CASE ~Quiet
  <2>1. ASSUME NEW d \in live'
        PROVE  Answerable(d)'
    BY <1>2, MintAppToken_Is, Live_Is, Hand_Is DEF StrayInv, Answerable, Holding, HoldsMachine,
       Moves, Others, News
  <2>2. ASSUME NEW u \in Threads
        PROVE  StrayShape(u)'
    BY <1>2, MintAppToken_Is DEF StrayInv, StrayShape, Moves, Others
  <2> QED BY <2>1, <2>2 DEF StrayInv
<1> QED BY <1>1, <1>2

\* remove ends the held credential's device, or leaves it behind.
LEMMA Remove_Stray ==
    ASSUME AccountBounds, TypeInv, OneAtATime, StrayInv, NEW t \in Threads, Remove(t)
    PROVE  StrayInv'
<1>1. CASE Quiet
  BY <1>1, Quiet_Stray
<1>2. CASE ~Quiet
  <2>1. ASSUME NEW d \in live'
        PROVE  Answerable(d)'
    BY <1>2, Remove_Is DEF StrayInv, Answerable, Holding, HoldsMachine, Moves, Others
  <2>2. ASSUME NEW u \in Threads
        PROVE  StrayShape(u)'
    BY <1>2, Remove_Is DEF StrayInv, StrayShape, Moves, Others
  <2> QED BY <2>1, <2>2 DEF StrayInv
<1> QED BY <1>1, <1>2

\* The verifier is locked; the file is as remove left it.
LEMMA RemoveLocks_Stray ==
    ASSUME AccountBounds, TypeInv, OneAtATime, StrayInv, NEW t \in Threads, RemoveLocks(t)
    PROVE  StrayInv'
<1>1. ASSUME NEW d \in live'
      PROVE  Answerable(d)'
  BY RemoveLocks_Is DEF StrayInv, Answerable, Holding, HoldsMachine, Moves, Others
<1>2. ASSUME NEW u \in Threads
      PROVE  StrayShape(u)'
  BY RemoveLocks_Is DEF StrayInv, StrayShape, Moves, Others
<1> QED BY <1>1, <1>2 DEF StrayInv

\* The forgotten credential was ended, or left behind: no setup holds another aside.
LEMMA RemoveForgets_Stray ==
    ASSUME AccountBounds, TypeInv, OneAtATime, StrayInv, NEW t \in Threads, RemoveForgets(t)
    PROVE  StrayInv'
<1>1. ASSUME NEW d \in live'
      PROVE  Answerable(d)'
  BY RemoveForgets_Is, Live_Is, Hand_Is, Locks_One DEF StrayInv, StrayShape, Answerable, Holding,
     Moves, Others, News, Answers
<1>2. ASSUME NEW u \in Threads
      PROVE  StrayShape(u)'
  BY RemoveForgets_Is, Live_Is, Locks_One DEF StrayInv, StrayShape, HoldsMachine, Moves, Others,
     Answers
<1> QED BY <1>1, <1>2 DEF StrayInv

\* The user goes: no credential is touched.
LEMMA FinishRemoval_Stray ==
    ASSUME AccountBounds, TypeInv, OneAtATime, StrayInv, NEW t \in Threads, FinishRemoval(t)
    PROVE  StrayInv'
<1>1. ASSUME NEW d \in live'
      PROVE  Answerable(d)'
  <2>1. d \in live /\ d # None /\ Others(t) /\ calls[t].at \notin News
    BY <1>1, FinishRemoval_Is, Live_Is DEF Moves, Answers, News
  <2>2. UNCHANGED <<file, stray>>
    BY FinishRemoval_Is
  <2> QED BY <2>1, <2>2, Hand_Kept DEF StrayInv, Answerable
<1>2. ASSUME NEW u \in Threads
      PROVE  StrayShape(u)'
  BY FinishRemoval_Is DEF StrayInv, StrayShape, Moves, Others, Answers
<1> QED BY <1>1, <1>2 DEF StrayInv

\* The file goes once its credential was forgotten, and no setup has written another.
LEMMA RemoveFile_Stray ==
    ASSUME AccountBounds, TypeInv, OneAtATime, StrayInv, NEW t \in Threads, RemoveFile(t)
    PROVE  StrayInv'
<1>1. ASSUME NEW d \in live'
      PROVE  Answerable(d)'
  BY RemoveFile_Is, Live_Is, Hand_Is, Locks_One DEF StrayInv, StrayShape, Answerable, Holding,
     Others, News, Answers
<1>2. ASSUME NEW u \in Threads
      PROVE  StrayShape(u)'
  BY RemoveFile_Is, Locks_One DEF StrayInv, StrayShape, HoldsMachine, Others, Answers, CredentialOf
<1> QED BY <1>1, <1>2 DEF StrayInv

\* A setup's device is in its hands, or lost with the answer.
LEMMA EnrollSignsIn_Stray ==
    ASSUME AccountBounds, TypeInv, OneAtATime, StrayInv, NEW t \in Threads, EnrollSignsIn(t)
    PROVE  StrayInv'
<1>1. CASE Quiet
  BY <1>1, Quiet_Stray
<1>2. CASE ~Quiet
  <2>1. ASSUME NEW d \in live'
        PROVE  Answerable(d)'
    BY <1>2, EnrollSignsIn_Is, Live_Is, Hand_Is DEF StrayInv, Answerable, Holding, HoldsMachine,
       Others, News
  <2>2. ASSUME NEW u \in Threads
        PROVE  StrayShape(u)'
    BY <1>2, EnrollSignsIn_Is, Live_Is, Hand_Is DEF StrayInv, StrayShape, Others, Olds
  <2> QED BY <2>1, <2>2 DEF StrayInv
<1> QED BY <1>1, <1>2

\* commit puts the account's enrollment aside, with the machine's lock.
LEMMA Commit_Stray ==
    ASSUME AccountBounds, TypeInv, OneAtATime, StrayInv, NEW t \in Threads, Commit(t)
    PROVE  StrayInv'
<1>1. ASSUME NEW d \in live'
      PROVE  Answerable(d)'
  <2>1. /\ d \in live /\ UNCHANGED <<file, stray>> /\ Others(t) /\ calls'[t].new = calls[t].new
        /\ ~HoldsMachine(calls[t])
    BY <1>1, Commit_Is DEF HoldsMachine
  <2>2. \A u \in Threads : Holding(calls[u], d) => Holding(calls'[u], d)
    BY <2>1 DEF Holding, HoldsMachine, Others
  <2> QED BY <2>1, <2>2 DEF StrayInv, Answerable, Holding, HoldsMachine
<1>2. ASSUME NEW u \in Threads
      PROVE  StrayShape(u)'
  BY Commit_Is DEF StrayInv, StrayShape, Others
<1> QED BY <1>1, <1>2 DEF StrayInv

\* The new credential is written and the old one kept aside, or the setup undone.
LEMMA CommitStores_Stray ==
    ASSUME AccountBounds, TypeInv, OneAtATime, StrayInv, NEW t \in Threads, CommitStores(t)
    PROVE  StrayInv'
<1>1. ASSUME NEW d \in live'
      PROVE  Answerable(d)'
  BY CommitStores_Is DEF StrayInv, StrayShape, Answerable, Holding, HoldsMachine, Moves, Others,
     Undone
<1>2. ASSUME NEW u \in Threads
      PROVE  StrayShape(u)'
  BY CommitStores_Is, Hand_Is, Locks_One DEF StrayInv, StrayShape, HoldsMachine, Moves, Others,
     Undone, OneAtATime, Removes, Setups
<1> QED BY <1>1, <1>2 DEF StrayInv

\* The setup ends the credential it replaced, or its own once it is undone.
LEMMA CommitVerifies_Stray ==
    ASSUME AccountBounds, TypeInv, OneAtATime, StrayInv, NEW t \in Threads, CommitVerifies(t)
    PROVE  StrayInv'
<1>1. ASSUME NEW d \in live'
      PROVE  Answerable(d)'
  BY CommitVerifies_Is, Live_Is DEF StrayInv, StrayShape, Answerable, Holding, Moves, Others, Undone
<1>2. ASSUME NEW u \in Threads
      PROVE  StrayShape(u)'
  BY CommitVerifies_Is, Hand_Is, Locks_One DEF StrayInv, StrayShape, HoldsMachine, Moves, Others,
     Undone, OneAtATime, Removes, Setups
<1> QED BY <1>1, <1>2 DEF StrayInv

\* Oxy ends a device by itself; a crash leaves behind what was in hand.
LEMMA Other_Stray ==
    ASSUME AccountBounds, TypeInv, StrayInv, SignsOut \/ Crash
    PROVE  StrayInv'
<1>1. CASE SignsOut
  <2>1. /\ live' \subseteq live /\ stray' = stray \cap live' /\ UNCHANGED <<file, calls>>
    BY <1>1 DEF SignsOut, machineVars
  <2>2. ASSUME NEW d \in live'
        PROVE  Answerable(d)'
    BY <2>1, <2>2 DEF StrayInv, Answerable, Holding, HoldsMachine
  <2>3. ASSUME NEW u \in Threads
        PROVE  StrayShape(u)'
    BY <2>1, <2>3 DEF StrayInv, StrayShape
  <2> QED BY <2>2, <2>3 DEF StrayInv
<1>2. CASE Crash
  <2>1. stray' = stray \cup (live \ {CredentialOf(file)}) /\ UNCHANGED <<file, live>>
    BY <1>2 DEF Crash, oxyVars, machineVars
  <2>2. \A u \in Threads : calls'[u].at = "idle"
    BY <1>2 DEF Crash, Idle
  <2>3. \A d \in live' : Answerable(d)'
    BY <2>1 DEF Answerable, CredentialOf
  <2>4. \A u \in Threads : StrayShape(u)'
    BY <2>2 DEF StrayShape
  <2> QED BY <2>3, <2>4 DEF StrayInv
<1> QED BY <1>1, <1>2

\* No step loses a device.
LEMMA Next_Stray ==
    ASSUME AccountBounds, TypeInv, OneAtATime, StrayInv, [Next]_vars
    PROVE  StrayInv'
<1>1. ASSUME NEW t \in Threads, Asked(t) \/ Steps(t)
      PROVE  StrayInv'
  <2>1. CASE Asked(t) \/ CheckSteps(t)
    BY <2>1, Asked_Quiet, CheckSteps_Quiet, Quiet_Stray
  <2>2. CASE SignInSteps(t)
    BY <2>2, SignIn_Quiet, Quiet_Stray, SignIn_Stray, MintToken_Stray, SignInAccepted_Stray,
       SetVerifier_Stray, Rotate_Stray, EndOnline_Stray, Revoked_Stray DEF SignInSteps
  <2>3. CASE TokenSteps(t)
    BY <2>3, Token_Stray, MintAppToken_Stray DEF TokenSteps
  <2>4. CASE RemoveSteps(t)
    BY <2>4, Remove_Stray, RemoveLocks_Stray, RemoveForgets_Stray, FinishRemoval_Stray,
       RemoveFile_Stray DEF RemoveSteps
  <2>5. CASE SetupSteps(t)
    BY <2>5, EnrollSignsIn_Stray, Commit_Stray, CommitStores_Stray, CommitVerifies_Stray
       DEF SetupSteps
  <2> QED BY <1>1, <2>1, <2>2, <2>3, <2>4, <2>5 DEF Steps
<1>2. CASE PasswordChanges \/ UNCHANGED vars
  BY <1>2, Unseen_Quiet, Quiet_Stray
<1> QED BY <1>1, <1>2, Other_Stray DEF Next

\* No device is left signed in at Oxy without a machine that holds it: whatever
\* the threads, passwords, faults and crashes, a live credential is the file's, or
\* some call will write it or end it, but for those a fault left behind.  A removal
\* and a setup of the same account at the same time are left out: there the code
\* does lose one.
THEOREM AccountPlatform_NoStrayDevice ==
    ASSUME AccountBounds, OneAtATime
    PROVE  Spec => []NoStrayDevice
<1>1. Init => TypeInv /\ StrayInv
  <2> SUFFICES ASSUME Init
               PROVE  StrayInv
    BY Init_Type
  <2>1. \A t \in Threads : calls[t].at = "idle"
    BY DEF Init, Idle
  <2>2. \A d \in live : d = CredentialOf(file)
    <3>1. CASE live = {1} /\ file = [credential |-> 1, changed |-> FALSE]
      <4>1. file \in Enrollment
        BY <3>1 DEF Enrollment, Credentials, AccountBounds
      <4> QED BY <3>1, <4>1 DEF CredentialOf, AccountBounds
    <3> QED BY <3>1 DEF Init
  <2> QED BY <2>1, <2>2 DEF StrayInv, Answerable, StrayShape
<1>2. TypeInv /\ StrayInv /\ [Next]_vars => (TypeInv /\ StrayInv)'
  BY Next_Type, Next_Stray
<1>3. StrayInv => NoStrayDevice
  <2>1. ASSUME StrayInv, NEW d \in live, d \notin stray, d # CredentialOf(file)
        PROVE  \E u \in Threads : d \in InHand(u)
    <3>1. PICK u \in Threads : Holding(calls[u], d)
      BY <2>1 DEF StrayInv, Answerable
    <3> QED BY <3>1 DEF Holding, HoldsMachine, InHand, At
  <2> QED BY <2>1, Zenon DEF NoStrayDevice
<1> QED BY <1>1, <1>2, <1>3, PTL DEF Spec

-----------------------------------------------------------------------------
(* Held is live.                                                             *)

\* The credential an enrollment about to be replaced holds, while it may come back.
Before(t) == IF HoldsMachine(calls[t]) THEN CredentialOf(calls[t].before) ELSE None

\* A credential's device is live, or the call that ended it is about to write so.
Writing(u, c) == \/ calls[u].at \in {"verifying", "rotating"} /\ calls[u].old = c
                 \/ calls[u].at \in {"shutting", "forgetting"}
HeldOK(c) == c = None \/ c \in live \/ \E u \in Threads : Writing(u, c)

\* A credential issued to a call is its own, until it writes it: live, in no other
\* call's hands, and not yet in the file.
OwnNew(t) ==
    /\ calls[t].at \in News \ {"settingUp"} => calls[t].new # CredentialOf(file)
    /\ calls[t].at = "settingUp" => calls[t].new = CredentialOf(file)
    /\ calls[t].at = "storing" => calls[t].before = file
    /\ calls[t].at \in News \ {"ending", "settingUp"} => calls[t].new \in live
Apart(t, u) ==
    /\ t # u /\ calls[t].at \in News /\ calls[u].at \in News => calls[t].new # calls[u].new
    /\ calls[t].at \in News => calls[t].new # Before(u)
    /\ calls[t].at \in {"committing", "storing"} /\ calls[u].at \in {"minting", "signing"}
         => calls[t].new # calls[u].old

HeldNow ==
    /\ HeldOK(CredentialOf(file))
    /\ \A t \in Threads : HeldOK(Before(t)) /\ OwnNew(t)
    /\ \A t, u \in Threads : Apart(t, u)

\* Nothing of the kind survives a fault.
HeldInv == faults = 0 => HeldNow

\* An enrollment kept aside holds a credential issued, as the file does.
LEMMA Before_Is ==
    ASSUME AccountBounds, TypeInv, NEW u \in Threads
    PROVE  /\ Before(u) # issued + 1
           /\ CredentialOf(calls[u].before) # issued + 1
<1>1. CredentialOf(calls[u].before) \in 1..issued \cup {None}
  BY Thread_Is DEF Shape
<1> QED BY <1>1, Live_Is DEF Before

\* What credentials do not notice.
LEMMA Quiet_Held ==
    ASSUME AccountBounds, TypeInv, HeldInv, Quiet
    PROVE  HeldInv'
<1> SUFFICES ASSUME faults = 0, HeldNow
             PROVE  HeldNow'
  BY DEF HeldInv, Quiet, Faulty
<1>1. ASSUME NEW c, HeldOK(c)
      PROVE  HeldOK(c)'
  BY <1>1 DEF Quiet, HeldOK, Writing, Loose, Plain
<1>2. ASSUME NEW u \in Threads
      PROVE  Before(u)' = Before(u) \/ Before(u)' = None
  BY DEF Quiet, Before, HoldsMachine, Plain
<1>3. HeldOK(None)'
  BY DEF HeldOK
<1>4. HeldOK(CredentialOf(file))'
  BY <1>1 DEF Quiet, HeldNow
<1>5. ASSUME NEW u \in Threads
      PROVE  HeldOK(Before(u))'
  BY <1>1, <1>2, <1>3 DEF HeldNow
<1>6. ASSUME NEW u \in Threads
      PROVE  OwnNew(u)'
  BY DEF Quiet, HeldNow, OwnNew, News, Plain, HoldsMachine
<1>7. ASSUME NEW u \in Threads, NEW w \in Threads
      PROVE  Apart(u, w)'
  <2>1. calls'[u].at \in News => calls'[u] = calls[u] /\ calls[u].new # None
    BY Hand_Is DEF Quiet, News, Plain
  <2>2. calls'[w] = calls[w] \/ calls'[w].at \in Plain
    BY DEF Quiet
  <2> QED BY <1>2, <2>1, <2>2 DEF HeldNow, Apart, News, Plain
<1> QED BY <1>4, <1>5, <1>6, <1>7 DEF HeldNow

\* sign_in reads the held credential: it stays live.
LEMMA SignIn_Held ==
    ASSUME AccountBounds, TypeInv, HeldInv, NEW t \in Threads, SignIn(t)
    PROVE  HeldInv'
<1> SUFFICES ASSUME faults' = 0, faults = 0, HeldNow, ~Quiet
             PROVE  HeldNow'
  BY Quiet_Held, SignIn_Is DEF HeldInv, Faulty, TypeInv, TypeOK
<1>1. HeldOK(CredentialOf(file))'
  BY SignIn_Is DEF HeldNow, HeldOK, Writing, Others
<1>2. ASSUME NEW u \in Threads
      PROVE  HeldOK(Before(u))'
  BY SignIn_Is DEF HeldNow, HeldOK, Writing, Before, HoldsMachine, Others
<1>3. ASSUME NEW u \in Threads
      PROVE  OwnNew(u)'
  BY SignIn_Is DEF HeldNow, OwnNew, Others, News
<1>4. ASSUME NEW u \in Threads, NEW w \in Threads
      PROVE  Apart(u, w)'
  BY SignIn_Is DEF HeldNow, OwnNew, Apart, Before, HoldsMachine, Others, News
<1> QED BY <1>1, <1>2, <1>3, <1>4 DEF HeldNow

\* mint_token turns to revoking only for a device that is not live.
LEMMA MintToken_Held ==
    ASSUME AccountBounds, TypeInv, HeldInv, NEW t \in Threads, MintToken(t)
    PROVE  HeldInv'
<1> SUFFICES ASSUME faults' = 0, faults = 0, HeldNow, ~Quiet
             PROVE  HeldNow'
  BY Quiet_Held, MintToken_Is DEF HeldInv, Faulty, TypeInv, TypeOK
<1>1. HeldOK(CredentialOf(file))'
  BY MintToken_Is, Locks_One DEF HeldNow, HeldOK, Writing, HoldsOnline
<1>2. ASSUME NEW u \in Threads
      PROVE  HeldOK(Before(u))'
  BY MintToken_Is DEF HeldNow, HeldOK, Writing, Before, HoldsMachine, Moves, Others
<1>3. ASSUME NEW u \in Threads
      PROVE  OwnNew(u)'
  BY MintToken_Is DEF HeldNow, OwnNew, Moves, Others, News
<1>4. ASSUME NEW u \in Threads, NEW w \in Threads
      PROVE  Apart(u, w)'
  BY MintToken_Is DEF HeldNow, Apart, Before, HoldsMachine, Moves, Others, News
<1> QED BY <1>1, <1>2, <1>3, <1>4 DEF HeldNow

\* A rotation retires the held credential and is about to write the next, nobody else's.
LEMMA SignInAccepted_Held ==
    ASSUME AccountBounds, TypeInv, HeldInv, NEW t \in Threads, SignInAccepted(t)
    PROVE  HeldInv'
<1> SUFFICES ASSUME faults' = 0, faults = 0, HeldNow
             PROVE  HeldNow'
  BY SignInAccepted_Is DEF HeldInv, Faulty, TypeInv, TypeOK
<1>0. /\ calls[t].at = "signing" /\ HoldsOnline(calls[t]) /\ calls[t].old \in live /\ UNCHANGED file
      /\ live' = (live \ {calls[t].old}) \cup {issued'} /\ Others(t) /\ issued' = issued + 1
      /\ calls'[t].at \in {"verifying", "rotating"} /\ calls'[t].old = calls[t].old
      /\ calls'[t].new = issued'
  BY SignInAccepted_Is DEF HoldsOnline, Faulty, TypeInv, TypeOK
<1>5. ASSUME NEW c, HeldOK(c)
      PROVE  HeldOK(c)'
  <2>1. ~\E u \in Threads : Writing(u, c)
    BY <1>0, Locks_One DEF Writing, HoldsOnline
  <2> QED BY <1>0, <1>5, <2>1 DEF HeldOK, Writing
<1>6. ASSUME NEW u \in Threads
      PROVE  Before(u)' = Before(u)
  BY <1>0 DEF Before, Others, HoldsMachine
<1>1. HeldOK(CredentialOf(file))'
  BY <1>0, <1>5 DEF HeldNow
<1>2. ASSUME NEW u \in Threads
      PROVE  HeldOK(Before(u))'
  BY <1>5, <1>6 DEF HeldNow
<1>3. ASSUME NEW u \in Threads
      PROVE  OwnNew(u)'
  <2>1. CASE u = t
    BY <1>0, <2>1, Live_Is DEF OwnNew, News
  <2>2. CASE u # t
    <3>1. OwnNew(u) /\ Apart(u, t) /\ calls'[u] = calls[u]
      BY <1>0, <2>2 DEF HeldNow, Others
    <3>2. calls[u].at \in {"verifying", "rotating"} => FALSE
      BY <1>0, <2>2, Locks_One DEF HoldsOnline
    <3> QED BY <1>0, <3>1, <3>2 DEF OwnNew, Apart, News
  <2> QED BY <2>1, <2>2
<1>4. ASSUME NEW u \in Threads, NEW w \in Threads
      PROVE  Apart(u, w)'
  BY SignInAccepted_Is, Live_Is, Hand_Is, Before_Is DEF HeldNow, Apart, Before, HoldsMachine,
     Others, News
<1> QED BY <1>1, <1>2, <1>3, <1>4 DEF HeldNow

\* The call that rotated still is about to write.
LEMMA SetVerifier_Held ==
    ASSUME AccountBounds, TypeInv, HeldInv, NEW t \in Threads, SetVerifier(t)
    PROVE  HeldInv'
<1> SUFFICES ASSUME faults' = 0, faults = 0, HeldNow
             PROVE  HeldNow'
  BY SetVerifier_Is DEF HeldInv, Faulty, TypeInv, TypeOK
<1>1. HeldOK(CredentialOf(file))'
  BY SetVerifier_Is, Locks_One DEF HeldNow, HeldOK, Writing, HoldsOnline, Moves
<1>2. ASSUME NEW u \in Threads
      PROVE  HeldOK(Before(u))'
  BY SetVerifier_Is DEF HeldNow, HeldOK, Writing, Before, HoldsMachine, Moves, Others
<1>3. ASSUME NEW u \in Threads
      PROVE  OwnNew(u)'
  BY SetVerifier_Is DEF HeldNow, OwnNew, Moves, Others, News
<1>4. ASSUME NEW u \in Threads, NEW w \in Threads
      PROVE  Apart(u, w)'
  BY SetVerifier_Is DEF HeldNow, Apart, Before, HoldsMachine, Moves, Others, News
<1> QED BY <1>1, <1>2, <1>3, <1>4 DEF HeldNow

\* The file takes the new credential, live and nobody else's; only one call rotates.
LEMMA Rotate_Held ==
    ASSUME AccountBounds, TypeInv, HeldInv, NEW t \in Threads, Rotate(t)
    PROVE  HeldInv'
<1> SUFFICES ASSUME faults' = 0, faults = 0, HeldNow
             PROVE  HeldNow'
  BY Rotate_Is DEF HeldInv, Faulty, TypeInv, TypeOK
<1>1. HeldOK(CredentialOf(file))'
  BY Rotate_Is, Hand_Is, Locks_One DEF HeldNow, OwnNew, HeldOK, Writing, HoldsOnline, StillHolds,
     CredentialOf, Faulty
<1>2. ASSUME NEW u \in Threads
      PROVE  HeldOK(Before(u))'
  BY Rotate_Is, Locks_One DEF HeldOK, Before, HoldsMachine, Moves, Others
<1>3. ASSUME NEW u \in Threads
      PROVE  OwnNew(u)'
  BY Rotate_Is, Locks_One DEF HeldNow, OwnNew, Apart, HoldsMachine, Moves, Others, News
<1>4. ASSUME NEW u \in Threads, NEW w \in Threads
      PROVE  Apart(u, w)'
  BY Rotate_Is DEF HeldNow, Apart, Before, HoldsMachine, Moves, Others, News
<1> QED BY <1>1, <1>2, <1>3, <1>4 DEF HeldNow

\* The credential ended is not the file's, and no enrollment kept aside holds it.
LEMMA EndOnline_Held ==
    ASSUME AccountBounds, TypeInv, HeldInv, NEW t \in Threads, EndOnline(t)
    PROVE  HeldInv'
<1> SUFFICES ASSUME faults' = 0, faults = 0, HeldNow
             PROVE  HeldNow'
  BY EndOnline_Is DEF HeldInv, Faulty, TypeInv, TypeOK
<1>1. HeldOK(CredentialOf(file))'
  BY EndOnline_Is, Hand_Is DEF HeldNow, OwnNew, HeldOK, Writing, Others
<1>2. ASSUME NEW u \in Threads
      PROVE  HeldOK(Before(u))'
  <2>1. CASE u = t
    BY <2>1, EndOnline_Is DEF Before, HoldsMachine, HeldOK
  <2>2. CASE u # t
    <3>1. /\ calls[t].at = "ending" /\ Apart(t, u) /\ HeldOK(Before(u)) /\ Before(u)' = Before(u)
          /\ live' = live \ {calls[t].new} /\ Others(t)
      BY <2>2, EndOnline_Is DEF HeldNow, Before, Others, Faulty
    <3>2. Before(u) \in live => Before(u) \in live'
      BY <3>1 DEF Apart, News
    <3>3. ASSUME NEW w \in Threads, Writing(w, Before(u))
          PROVE  calls'[w] = calls[w]
      BY <3>1, <3>3 DEF Writing, Others
    <3> QED BY <3>1, <3>2, <3>3 DEF HeldOK, Writing
  <2> QED BY <2>1, <2>2
<1>3. ASSUME NEW u \in Threads
      PROVE  OwnNew(u)'
  BY EndOnline_Is DEF HeldNow, OwnNew, Apart, Others, News
<1>4. ASSUME NEW u \in Threads, NEW w \in Threads
      PROVE  Apart(u, w)'
  BY EndOnline_Is DEF HeldNow, Apart, Before, HoldsMachine, Others, News
<1> QED BY <1>1, <1>2, <1>3, <1>4 DEF HeldNow

\* revoked forgets the credential; none is kept aside with it.
LEMMA Revoked_Held ==
    ASSUME AccountBounds, TypeInv, HeldInv, NEW t \in Threads, Revoked(t)
    PROVE  HeldInv'
<1> SUFFICES ASSUME faults' = 0, faults = 0, HeldNow, ~Quiet
             PROVE  HeldNow'
  BY Quiet_Held, Revoked_Is DEF HeldInv, Faulty, TypeInv, TypeOK
<1>1. HeldOK(CredentialOf(file))'
  BY Revoked_Is DEF HeldOK
<1>2. ASSUME NEW u \in Threads
      PROVE  HeldOK(Before(u))'
  BY Revoked_Is, Locks_One DEF HeldOK, Before, HoldsMachine, Moves, Others
<1>3. ASSUME NEW u \in Threads
      PROVE  OwnNew(u)'
  BY Revoked_Is, Hand_Is, Locks_One DEF HeldNow, OwnNew, HoldsMachine, Moves, Others, News
<1>4. ASSUME NEW u \in Threads, NEW w \in Threads
      PROVE  Apart(u, w)'
  BY Revoked_Is DEF HeldNow, Apart, Before, HoldsMachine, Moves, Others, News
<1> QED BY <1>1, <1>2, <1>3, <1>4 DEF HeldNow

\* token reads the held credential: it stays live.
LEMMA Token_Held ==
    ASSUME AccountBounds, TypeInv, HeldInv, NEW t \in Threads, Token(t)
    PROVE  HeldInv'
<1> SUFFICES ASSUME faults' = 0, faults = 0, HeldNow, ~Quiet
             PROVE  HeldNow'
  BY Quiet_Held, Token_Is DEF HeldInv, Faulty, TypeInv, TypeOK
<1>1. HeldOK(CredentialOf(file))'
  BY Token_Is DEF HeldNow, HeldOK, Writing, Others
<1>2. ASSUME NEW u \in Threads
      PROVE  HeldOK(Before(u))'
  BY Token_Is DEF HeldNow, HeldOK, Writing, Before, HoldsMachine, Others
<1>3. ASSUME NEW u \in Threads
      PROVE  OwnNew(u)'
  BY Token_Is DEF HeldNow, OwnNew, Others, News
<1>4. ASSUME NEW u \in Threads, NEW w \in Threads
      PROVE  Apart(u, w)'
  BY Token_Is DEF HeldNow, Apart, Before, HoldsMachine, Others, News
<1> QED BY <1>1, <1>2, <1>3, <1>4 DEF HeldNow

\* mint turns to revoking only for a device that is not live.
LEMMA MintAppToken_Held ==
    ASSUME AccountBounds, TypeInv, HeldInv, NEW t \in Threads, MintAppToken(t)
    PROVE  HeldInv'
<1> SUFFICES ASSUME faults' = 0, faults = 0, HeldNow, ~Quiet
             PROVE  HeldNow'
  BY Quiet_Held, MintAppToken_Is DEF HeldInv, Faulty, TypeInv, TypeOK
<1>1. HeldOK(CredentialOf(file))'
  BY MintAppToken_Is, Locks_One DEF HeldNow, HeldOK, Writing, HoldsOnline
<1>2. ASSUME NEW u \in Threads
      PROVE  HeldOK(Before(u))'
  BY MintAppToken_Is DEF HeldNow, HeldOK, Writing, Before, HoldsMachine, Moves, Others
<1>3. ASSUME NEW u \in Threads
      PROVE  OwnNew(u)'
  BY MintAppToken_Is DEF HeldNow, OwnNew, Moves, Others, News
<1>4. ASSUME NEW u \in Threads, NEW w \in Threads
      PROVE  Apart(u, w)'
  BY MintAppToken_Is DEF HeldNow, Apart, Before, HoldsMachine, Moves, Others, News
<1> QED BY <1>1, <1>2, <1>3, <1>4 DEF HeldNow

\* remove ends the held credential, and is about to write so.
LEMMA Remove_Held ==
    ASSUME AccountBounds, TypeInv, HeldInv, NEW t \in Threads, Remove(t)
    PROVE  HeldInv'
<1> SUFFICES ASSUME faults' = 0, faults = 0, HeldNow, ~Quiet
             PROVE  HeldNow'
  BY Quiet_Held, Remove_Is DEF HeldInv, Faulty, TypeInv, TypeOK
<1>1. HeldOK(CredentialOf(file))'
  BY Remove_Is DEF HeldOK, Writing, Moves
<1>2. ASSUME NEW u \in Threads
      PROVE  HeldOK(Before(u))'
  BY Remove_Is DEF HeldOK, Writing, Moves
<1>3. ASSUME NEW u \in Threads
      PROVE  OwnNew(u)'
  BY Remove_Is DEF HeldNow, OwnNew, Moves, Others, News
<1>4. ASSUME NEW u \in Threads, NEW w \in Threads
      PROVE  Apart(u, w)'
  BY Remove_Is DEF HeldNow, Apart, Before, HoldsMachine, Moves, Others, News
<1> QED BY <1>1, <1>2, <1>3, <1>4 DEF HeldNow

\* The call that ended the credential still is about to write so.
LEMMA RemoveLocks_Held ==
    ASSUME AccountBounds, TypeInv, HeldInv, NEW t \in Threads, RemoveLocks(t)
    PROVE  HeldInv'
<1> SUFFICES ASSUME faults' = 0, faults = 0, HeldNow
             PROVE  HeldNow'
  BY RemoveLocks_Is DEF HeldInv, Faulty, TypeInv, TypeOK
<1>1. HeldOK(CredentialOf(file))'
  BY RemoveLocks_Is DEF HeldOK, Writing, Moves
<1>2. ASSUME NEW u \in Threads
      PROVE  HeldOK(Before(u))'
  BY RemoveLocks_Is DEF HeldOK, Writing, Moves
<1>3. ASSUME NEW u \in Threads
      PROVE  OwnNew(u)'
  BY RemoveLocks_Is DEF HeldNow, OwnNew, Moves, Others, News
<1>4. ASSUME NEW u \in Threads, NEW w \in Threads
      PROVE  Apart(u, w)'
  BY RemoveLocks_Is DEF HeldNow, Apart, Before, HoldsMachine, Moves, Others, News
<1> QED BY <1>1, <1>2, <1>3, <1>4 DEF HeldNow

\* The file holds no credential.
LEMMA RemoveForgets_Held ==
    ASSUME AccountBounds, TypeInv, HeldInv, NEW t \in Threads, RemoveForgets(t)
    PROVE  HeldInv'
<1> SUFFICES ASSUME faults' = 0, faults = 0, HeldNow
             PROVE  HeldNow'
  BY RemoveForgets_Is DEF HeldInv, Faulty, TypeInv, TypeOK
<1>1. HeldOK(CredentialOf(file))'
  BY RemoveForgets_Is DEF HeldOK, Faulty
<1>2. ASSUME NEW u \in Threads
      PROVE  HeldOK(Before(u))'
  BY RemoveForgets_Is, Locks_One DEF HeldOK, Before, HoldsMachine, Moves, Others, Answers
<1>3. ASSUME NEW u \in Threads
      PROVE  OwnNew(u)'
  BY RemoveForgets_Is, Hand_Is, Locks_One DEF HeldNow, OwnNew, HoldsMachine, Moves, Others, News,
     Answers
<1>4. ASSUME NEW u \in Threads, NEW w \in Threads
      PROVE  Apart(u, w)'
  BY RemoveForgets_Is DEF HeldNow, Apart, Before, HoldsMachine, Moves, Others, News, Answers
<1> QED BY <1>1, <1>2, <1>3, <1>4 DEF HeldNow

\* The user goes: no credential is touched.
LEMMA FinishRemoval_Held ==
    ASSUME AccountBounds, TypeInv, HeldInv, NEW t \in Threads, FinishRemoval(t)
    PROVE  HeldInv'
<1> SUFFICES ASSUME faults' = 0, faults = 0, HeldNow
             PROVE  HeldNow'
  BY FinishRemoval_Is DEF HeldInv, Faulty, TypeInv, TypeOK
<1>1. HeldOK(CredentialOf(file))'
  BY FinishRemoval_Is DEF HeldNow, HeldOK, Writing, Moves, Others, Answers
<1>2. ASSUME NEW u \in Threads
      PROVE  HeldOK(Before(u))'
  BY FinishRemoval_Is DEF HeldNow, HeldOK, Writing, Before, HoldsMachine, Moves, Others, Answers
<1>3. ASSUME NEW u \in Threads
      PROVE  OwnNew(u)'
  BY FinishRemoval_Is DEF HeldNow, OwnNew, Moves, Others, News, Answers
<1>4. ASSUME NEW u \in Threads, NEW w \in Threads
      PROVE  Apart(u, w)'
  BY FinishRemoval_Is DEF HeldNow, Apart, Before, HoldsMachine, Moves, Others, News, Answers
<1> QED BY <1>1, <1>2, <1>3, <1>4 DEF HeldNow

\* There is no file, so no credential to be live.
LEMMA RemoveFile_Held ==
    ASSUME AccountBounds, TypeInv, HeldInv, NEW t \in Threads, RemoveFile(t)
    PROVE  HeldInv'
<1> SUFFICES ASSUME faults' = 0, faults = 0, HeldNow
             PROVE  HeldNow'
  BY RemoveFile_Is DEF HeldInv, Faulty, TypeInv, TypeOK
<1>1. HeldOK(CredentialOf(file))'
  BY RemoveFile_Is DEF HeldNow, HeldOK, Writing, Others, Answers, CredentialOf
<1>2. ASSUME NEW u \in Threads
      PROVE  HeldOK(Before(u))'
  BY RemoveFile_Is, Locks_One DEF HeldOK, Before, HoldsMachine, Others, Answers
<1>3. ASSUME NEW u \in Threads
      PROVE  OwnNew(u)'
  BY RemoveFile_Is, Hand_Is, Locks_One DEF HeldNow, OwnNew, HoldsMachine, Others, News, Answers,
     CredentialOf
<1>4. ASSUME NEW u \in Threads, NEW w \in Threads
      PROVE  Apart(u, w)'
  BY RemoveFile_Is DEF HeldNow, Apart, Before, HoldsMachine, Others, News, Answers
<1> QED BY <1>1, <1>2, <1>3, <1>4 DEF HeldNow

\* A setup's credential is its own: no other call's, and not yet the file's.
LEMMA EnrollSignsIn_Held ==
    ASSUME AccountBounds, TypeInv, HeldInv, NEW t \in Threads, EnrollSignsIn(t)
    PROVE  HeldInv'
<1> SUFFICES ASSUME faults' = 0, faults = 0, HeldNow, ~Quiet
             PROVE  HeldNow'
  BY Quiet_Held, EnrollSignsIn_Is DEF HeldInv, Faulty, TypeInv, TypeOK
<1>1. HeldOK(CredentialOf(file))'
  BY EnrollSignsIn_Is DEF HeldNow, HeldOK, Writing, Others
<1>2. ASSUME NEW u \in Threads
      PROVE  HeldOK(Before(u))'
  BY EnrollSignsIn_Is DEF HeldNow, HeldOK, Writing, Before, HoldsMachine, Others
<1>3. ASSUME NEW u \in Threads
      PROVE  OwnNew(u)'
  BY EnrollSignsIn_Is, Live_Is DEF HeldNow, OwnNew, Others, News
<1>4. ASSUME NEW u \in Threads, NEW w \in Threads
      PROVE  Apart(u, w)'
  BY EnrollSignsIn_Is, Live_Is, Hand_Is, Before_Is DEF HeldNow, Apart, Before, HoldsMachine, Others,
     News, Olds
<1> QED BY <1>1, <1>2, <1>3, <1>4 DEF HeldNow

\* The enrollment put aside is the file's, and the new credential is not.
LEMMA Commit_Held ==
    ASSUME AccountBounds, TypeInv, HeldInv, NEW t \in Threads, Commit(t)
    PROVE  HeldInv'
<1> SUFFICES ASSUME faults' = 0, faults = 0, HeldNow
             PROVE  HeldNow'
  BY Commit_Is DEF HeldInv, Faulty, TypeInv, TypeOK
<1>1. HeldOK(CredentialOf(file))'
  BY Commit_Is DEF HeldNow, HeldOK, Writing, Others
<1>2. ASSUME NEW u \in Threads
      PROVE  HeldOK(Before(u))'
  BY Commit_Is DEF HeldNow, HeldOK, Writing, Before, HoldsMachine, Others
<1>3. ASSUME NEW u \in Threads
      PROVE  OwnNew(u)'
  BY Commit_Is DEF HeldNow, OwnNew, Others, News
<1>4. ASSUME NEW u \in Threads, NEW w \in Threads
      PROVE  Apart(u, w)'
  BY Commit_Is, Locks_One DEF HeldNow, OwnNew, Apart, Before, HoldsMachine, Others, News
<1> QED BY <1>1, <1>2, <1>3, <1>4 DEF HeldNow

\* The file takes the setup's credential, which is live.
LEMMA CommitStores_Held ==
    ASSUME AccountBounds, TypeInv, HeldInv, NEW t \in Threads, CommitStores(t)
    PROVE  HeldInv'
<1> SUFFICES ASSUME faults' = 0, faults = 0, HeldNow
             PROVE  HeldNow'
  BY CommitStores_Is DEF HeldInv, Faulty, TypeInv, TypeOK
<1>1. HeldOK(CredentialOf(file))'
  BY CommitStores_Is, Hand_Is DEF HeldNow, OwnNew, HeldOK, Writing, Moves, Others, Undone
<1>2. ASSUME NEW u \in Threads
      PROVE  HeldOK(Before(u))'
  BY CommitStores_Is DEF HeldNow, OwnNew, HeldOK, Writing, Before, Moves, Others, Undone
<1>3. ASSUME NEW u \in Threads
      PROVE  OwnNew(u)'
  BY CommitStores_Is, Locks_One DEF HeldNow, OwnNew, Apart, HoldsMachine, Moves, Others, News,
     Undone
<1>4. ASSUME NEW u \in Threads, NEW w \in Threads
      PROVE  Apart(u, w)'
  BY CommitStores_Is, Hand_Is DEF HeldNow, Apart, Before, HoldsMachine, Moves, Others, News, Undone
<1> QED BY <1>1, <1>2, <1>3, <1>4 DEF HeldNow

\* The credential to be ended is the one the file no longer holds.
LEMMA CommitVerifies_Held ==
    ASSUME AccountBounds, TypeInv, HeldInv, NEW t \in Threads, CommitVerifies(t)
    PROVE  HeldInv'
<1> SUFFICES ASSUME faults' = 0, faults = 0, HeldNow
             PROVE  HeldNow'
  BY CommitVerifies_Is DEF HeldInv, Faulty, TypeInv, TypeOK
<1>1. HeldOK(CredentialOf(file))'
  BY CommitVerifies_Is DEF HeldNow, HeldOK, Writing, Before, HoldsMachine, Moves, Others, Undone
<1>2. ASSUME NEW u \in Threads
      PROVE  HeldOK(Before(u))'
  BY CommitVerifies_Is, Locks_One DEF HeldOK, Before, HoldsMachine, Moves, Others, Undone
<1>3. ASSUME NEW u \in Threads
      PROVE  OwnNew(u)'
  BY CommitVerifies_Is DEF HeldNow, OwnNew, Apart, Before, HoldsMachine, Moves, Others, News, Undone
<1>4. ASSUME NEW u \in Threads, NEW w \in Threads
      PROVE  Apart(u, w)'
  <2>1. /\ calls[t].at = "settingUp" /\ Others(t) /\ Before(t) = CredentialOf(calls[t].before)
        /\ \/ calls'[t].at = "idle"
           \/ calls'[t].at = "ending" /\ calls'[t].new = calls[t].new
           \/ calls'[t].at = "ending" /\ calls'[t].new = Before(t) /\ calls'[t].new # None
    BY CommitVerifies_Is DEF Undone, Moves, Before, HoldsMachine
  <2>2. \A v \in Threads : calls'[v].at \in News => calls'[v].new # None
    BY <2>1, Hand_Is DEF Others, News
  <2>3. \A v \in Threads : Before(v)' = None
    BY <2>1, Locks_One DEF Before, HoldsMachine, Others
  <2>4. \A v \in Threads \ {t} : calls'[v] = calls[v] /\ Apart(v, t) /\ Apart(t, v)
    BY <2>1 DEF Others, HeldNow
  <2>5. Apart(u, w)
    BY DEF HeldNow
  <2>6. CASE u # t /\ w # t
    BY <2>2, <2>3, <2>4, <2>5, <2>6 DEF Apart
  <2>7. CASE u = t \/ w = t
    BY <2>1, <2>2, <2>3, <2>4, <2>7 DEF Apart, News
  <2> QED BY <2>6, <2>7
<1> QED BY <1>1, <1>2, <1>3, <1>4 DEF HeldNow

\* Oxy ending a device, and a crash, are faults.
LEMMA Other_Held ==
    ASSUME AccountBounds, TypeInv, SignsOut \/ Crash
    PROVE  HeldInv'
BY DEF SignsOut, Crash, Fault, HeldInv, TypeInv, TypeOK

\* No step costs the machine its credential.
LEMMA Next_Held ==
    ASSUME AccountBounds, TypeInv, HeldInv, [Next]_vars
    PROVE  HeldInv'
<1>1. ASSUME NEW t \in Threads, Asked(t) \/ Steps(t)
      PROVE  HeldInv'
  <2>1. CASE Asked(t) \/ CheckSteps(t)
    BY <2>1, Asked_Quiet, CheckSteps_Quiet, Quiet_Held
  <2>2. CASE SignInSteps(t)
    BY <2>2, SignIn_Quiet, Quiet_Held, SignIn_Held, MintToken_Held, SignInAccepted_Held,
       SetVerifier_Held, Rotate_Held, EndOnline_Held, Revoked_Held DEF SignInSteps
  <2>3. CASE TokenSteps(t)
    BY <2>3, Token_Held, MintAppToken_Held DEF TokenSteps
  <2>4. CASE RemoveSteps(t)
    BY <2>4, Remove_Held, RemoveLocks_Held, RemoveForgets_Held, FinishRemoval_Held, RemoveFile_Held
       DEF RemoveSteps
  <2>5. CASE SetupSteps(t)
    BY <2>5, EnrollSignsIn_Held, Commit_Held, CommitStores_Held, CommitVerifies_Held
       DEF SetupSteps
  <2> QED BY <1>1, <2>1, <2>2, <2>3, <2>4, <2>5 DEF Steps
<1>2. CASE PasswordChanges \/ UNCHANGED vars
  BY <1>2, Unseen_Quiet, Quiet_Held
<1> QED BY <1>1, <1>2, Other_Held DEF Next

\* Without a fault the calls never cost the machine its credential: for any
\* threads, any kinds of calls and any passwords changed elsewhere, what the file
\* holds is live at Oxy, or the call that rotated or ended it holds the account's
\* calls and is about to write so (sign_in, remove, commit).
THEOREM AccountPlatform_HeldIsLive ==
    ASSUME AccountBounds
    PROVE  Spec => []HeldIsLive
<1>1. Init => TypeInv /\ HeldInv
  <2> SUFFICES ASSUME Init
               PROVE  HeldNow
    BY Init_Type DEF HeldInv
  <2>1. \A t \in Threads : calls[t].at = "idle"
    BY DEF Init, Idle
  <2>2. HeldOK(CredentialOf(file))
    <3>1. CASE live = {1} /\ file = [credential |-> 1, changed |-> FALSE]
      <4>1. file \in Enrollment
        BY <3>1 DEF Enrollment, Credentials, AccountBounds
      <4> QED BY <3>1, <4>1 DEF HeldOK, CredentialOf, AccountBounds
    <3>2. CASE file = None
      BY <3>2 DEF HeldOK, CredentialOf
    <3> QED BY <3>1, <3>2 DEF Init
  <2> QED BY <2>1, <2>2 DEF HeldNow, HeldOK, Before, HoldsMachine, OwnNew, Apart, News
<1>2. TypeInv /\ HeldInv /\ [Next]_vars => (TypeInv /\ HeldInv)'
  BY Next_Type, Next_Held
<1>3. TypeInv /\ HeldInv => HeldIsLive
  <2> SUFFICES ASSUME TypeInv, HeldNow, file # None, file.credential # None,
                      file.credential \notin live
               PROVE  /\ onlineCalls # None
                      /\ calls[onlineCalls].at \in {"verifying", "rotating", "shutting", "forgetting"}
    BY DEF HeldInv, HeldIsLive
  <2>1. PICK u \in Threads : Writing(u, file.credential)
    BY DEF HeldNow, HeldOK, CredentialOf
  <2>2. onlineCalls = u /\ u # None
    BY <2>1, Thread_Is DEF Writing, HoldsOnline
  <2> QED BY <2>1, <2>2 DEF Writing
<1> QED BY <1>1, <1>2, <1>3, PTL DEF Spec

-----------------------------------------------------------------------------
(* A kept token is the held credential's.                                    *)

TokenShape(t) ==
    /\ calls[t].at = "mintingToken" => StillHolds(calls[t].old)
    /\ calls[t].at \in {"finishing", "unlisting"} => CredentialOf(file) = None

TokenInv == TokenOfHeld /\ \A t \in Threads : TokenShape(t)

\* The file holds a credential exactly when it is the one read of it.
LEMMA Holds_Is ==
    ASSUME NEW c, c # None
    PROVE  StillHolds(c) <=> CredentialOf(file) = c
BY DEF StillHolds, CredentialOf

\* What credentials do not notice.
LEMMA Quiet_Token ==
    ASSUME AccountBounds, TypeInv, TokenInv, Quiet
    PROVE  TokenInv'
<1>1. \A c : StillHolds(c) /\ c # None => StillHolds(c)'
  BY DEF Quiet, StillHolds, CredentialOf
<1>2. TokenOfHeld'
  BY <1>1 DEF Quiet, TokenInv, TokenOfHeld
<1>3. ASSUME NEW u \in Threads
      PROVE  TokenShape(u)'
  <2>1. CASE calls'[u] = calls[u]
    BY <1>1, <2>1, Hand_Is DEF Quiet, TokenInv, TokenShape, Olds
  <2>2. CASE calls'[u].at \in Plain
    BY <2>2 DEF TokenShape, Plain
  <2> QED BY <2>1, <2>2 DEF Quiet
<1> QED BY <1>2, <1>3 DEF TokenInv

\* sign_in reads the held credential: the tokens are left alone.
LEMMA SignIn_Token ==
    ASSUME AccountBounds, TypeInv, "setup" \notin Kinds, TokenInv, NEW t \in Threads, SignIn(t)
    PROVE  TokenInv'
<1> SUFFICES ASSUME ~Quiet
             PROVE  TokenInv'
  BY Quiet_Token
<1>1. TokenOfHeld'
  BY SignIn_Is DEF TokenInv, TokenOfHeld, StillHolds
<1>2. ASSUME NEW u \in Threads
      PROVE  TokenShape(u)'
  BY SignIn_Is DEF TokenInv, TokenShape, StillHolds, Others
<1> QED BY <1>1, <1>2 DEF TokenInv

\* mint_token is not kept.
LEMMA MintToken_Token ==
    ASSUME AccountBounds, TypeInv, "setup" \notin Kinds, TokenInv, NEW t \in Threads, MintToken(t)
    PROVE  TokenInv'
<1> SUFFICES ASSUME ~Quiet
             PROVE  TokenInv'
  BY Quiet_Token
<1>1. TokenOfHeld'
  BY MintToken_Is DEF TokenInv, TokenOfHeld, StillHolds
<1>2. ASSUME NEW u \in Threads
      PROVE  TokenShape(u)'
  BY MintToken_Is DEF TokenInv, TokenShape, StillHolds, Moves, Others
<1> QED BY <1>1, <1>2 DEF TokenInv

\* The file still holds the credential that was rotated.
LEMMA SignInAccepted_Token ==
    ASSUME AccountBounds, TypeInv, "setup" \notin Kinds, TokenInv, NEW t \in Threads, SignInAccepted(t)
    PROVE  TokenInv'
<1>1. TokenOfHeld'
  BY SignInAccepted_Is DEF TokenInv, TokenOfHeld, StillHolds
<1>2. ASSUME NEW u \in Threads
      PROVE  TokenShape(u)'
  BY SignInAccepted_Is DEF TokenInv, TokenShape, StillHolds, Others
<1> QED BY <1>1, <1>2 DEF TokenInv

\* The verifier is no token's.
LEMMA SetVerifier_Token ==
    ASSUME AccountBounds, TypeInv, "setup" \notin Kinds, TokenInv, NEW t \in Threads, SetVerifier(t)
    PROVE  TokenInv'
<1>1. TokenOfHeld'
  BY SetVerifier_Is DEF TokenInv, TokenOfHeld, StillHolds
<1>2. ASSUME NEW u \in Threads
      PROVE  TokenShape(u)'
  BY SetVerifier_Is DEF TokenInv, TokenShape, StillHolds, Moves, Others
<1> QED BY <1>1, <1>2 DEF TokenInv

\* rotate forgets the tokens of the credential it replaces.
LEMMA Rotate_Token ==
    ASSUME AccountBounds, TypeInv, "setup" \notin Kinds, TokenInv, NEW t \in Threads, Rotate(t)
    PROVE  TokenInv'
<1>1. TokenOfHeld'
  BY Rotate_Is DEF TokenInv, TokenOfHeld, StillHolds
<1>2. ASSUME NEW u \in Threads
      PROVE  TokenShape(u)'
  BY Rotate_Is, Hand_Is, Locks_One DEF TokenInv, TokenShape, StillHolds, CredentialOf, HoldsOnline,
     Moves, Others, Olds
<1> QED BY <1>1, <1>2 DEF TokenInv

\* The credential ended is not the file's.
LEMMA EndOnline_Token ==
    ASSUME AccountBounds, TypeInv, "setup" \notin Kinds, TokenInv, NEW t \in Threads, EndOnline(t)
    PROVE  TokenInv'
<1>1. TokenOfHeld'
  BY EndOnline_Is DEF TokenInv, TokenOfHeld, StillHolds
<1>2. ASSUME NEW u \in Threads
      PROVE  TokenShape(u)'
  BY EndOnline_Is DEF TokenInv, TokenShape, StillHolds, Others
<1> QED BY <1>1, <1>2 DEF TokenInv

\* revoked forgets the tokens with the credential.
LEMMA Revoked_Token ==
    ASSUME AccountBounds, TypeInv, "setup" \notin Kinds, TokenInv, NEW t \in Threads, Revoked(t)
    PROVE  TokenInv'
<1> SUFFICES ASSUME ~Quiet
             PROVE  TokenInv'
  BY Quiet_Token
<1>1. TokenOfHeld'
  BY Revoked_Is DEF TokenOfHeld
<1>2. ASSUME NEW u \in Threads
      PROVE  TokenShape(u)'
  BY Revoked_Is, Locks_One DEF TokenShape, HoldsOnline, Moves, Others
<1> QED BY <1>1, <1>2 DEF TokenInv

\* A new token is minted with the credential read, and the old one is not kept.
LEMMA Token_Token ==
    ASSUME AccountBounds, TypeInv, "setup" \notin Kinds, TokenInv, NEW t \in Threads, Token(t)
    PROVE  TokenInv'
<1> SUFFICES ASSUME ~Quiet
             PROVE  TokenInv'
  BY Quiet_Token
<1>1. TokenOfHeld'
  BY Token_Is DEF TokenOfHeld
<1>2. ASSUME NEW u \in Threads
      PROVE  TokenShape(u)'
  BY Token_Is DEF TokenInv, TokenShape, StillHolds, Others
<1> QED BY <1>1, <1>2 DEF TokenInv

\* The token kept was minted with the credential read, which the file still holds.
LEMMA MintAppToken_Token ==
    ASSUME AccountBounds, TypeInv, "setup" \notin Kinds, TokenInv, NEW t \in Threads, MintAppToken(t)
    PROVE  TokenInv'
<1> SUFFICES ASSUME ~Quiet
             PROVE  TokenInv'
  BY Quiet_Token
<1>1. TokenOfHeld'
  BY MintAppToken_Is DEF TokenInv, TokenShape, TokenOfHeld, StillHolds
<1>2. ASSUME NEW u \in Threads
      PROVE  TokenShape(u)'
  BY MintAppToken_Is DEF TokenInv, TokenShape, StillHolds, Moves, Others
<1> QED BY <1>1, <1>2 DEF TokenInv

\* The file holds its credential until it is forgotten.
LEMMA Remove_Token ==
    ASSUME AccountBounds, TypeInv, "setup" \notin Kinds, TokenInv, NEW t \in Threads, Remove(t)
    PROVE  TokenInv'
<1> SUFFICES ASSUME ~Quiet
             PROVE  TokenInv'
  BY Quiet_Token
<1>1. TokenOfHeld'
  BY Remove_Is DEF TokenInv, TokenOfHeld, StillHolds
<1>2. ASSUME NEW u \in Threads
      PROVE  TokenShape(u)'
  BY Remove_Is DEF TokenInv, TokenShape, StillHolds, Moves, Others
<1> QED BY <1>1, <1>2 DEF TokenInv

\* The file holds its credential until it is forgotten.
LEMMA RemoveLocks_Token ==
    ASSUME AccountBounds, TypeInv, "setup" \notin Kinds, TokenInv, NEW t \in Threads, RemoveLocks(t)
    PROVE  TokenInv'
<1>1. TokenOfHeld'
  BY RemoveLocks_Is DEF TokenInv, TokenOfHeld, StillHolds
<1>2. ASSUME NEW u \in Threads
      PROVE  TokenShape(u)'
  BY RemoveLocks_Is DEF TokenInv, TokenShape, StillHolds, Moves, Others
<1> QED BY <1>1, <1>2 DEF TokenInv

\* The tokens are forgotten with the credential.
LEMMA RemoveForgets_Token ==
    ASSUME AccountBounds, TypeInv, "setup" \notin Kinds, TokenInv, NEW t \in Threads, RemoveForgets(t)
    PROVE  TokenInv'
<1>1. TokenOfHeld'
  BY RemoveForgets_Is DEF TokenInv, TokenOfHeld, StillHolds
<1>2. ASSUME NEW u \in Threads
      PROVE  TokenShape(u)'
  BY RemoveForgets_Is, Locks_One DEF TokenInv, TokenShape, HoldsOnline, Moves, Others, Answers
<1> QED BY <1>1, <1>2 DEF TokenInv

\* The user goes: file and tokens are as they were.
LEMMA FinishRemoval_Token ==
    ASSUME AccountBounds, TypeInv, "setup" \notin Kinds, TokenInv, NEW t \in Threads, FinishRemoval(t)
    PROVE  TokenInv'
<1>1. TokenOfHeld'
  BY FinishRemoval_Is DEF TokenInv, TokenOfHeld, StillHolds
<1>2. ASSUME NEW u \in Threads
      PROVE  TokenShape(u)'
  BY FinishRemoval_Is DEF TokenInv, TokenShape, StillHolds, Moves, Others, Answers
<1> QED BY <1>1, <1>2 DEF TokenInv

\* The tokens go with the file.
LEMMA RemoveFile_Token ==
    ASSUME AccountBounds, TypeInv, "setup" \notin Kinds, TokenInv, NEW t \in Threads, RemoveFile(t)
    PROVE  TokenInv'
<1>1. TokenOfHeld'
  BY RemoveFile_Is DEF TokenOfHeld
<1>2. ASSUME NEW u \in Threads
      PROVE  TokenShape(u)'
  BY RemoveFile_Is, Hand_Is DEF TokenInv, TokenShape, StillHolds, CredentialOf, Others, Olds,
     Answers
<1> QED BY <1>1, <1>2 DEF TokenInv

\* There are no setups here.
LEMMA EnrollSignsIn_Token ==
    ASSUME AccountBounds, TypeInv, "setup" \notin Kinds, TokenInv, NEW t \in Threads, EnrollSignsIn(t)
    PROVE  TokenInv'
BY EnrollSignsIn_Is, Quiet_Token, Hand_Is DEF Setups

\* There are no setups here.
LEMMA Commit_Token ==
    ASSUME AccountBounds, TypeInv, "setup" \notin Kinds, TokenInv, NEW t \in Threads, Commit(t)
    PROVE  TokenInv'
BY Commit_Is, Hand_Is DEF Setups

\* There are no setups here.
LEMMA CommitStores_Token ==
    ASSUME AccountBounds, TypeInv, "setup" \notin Kinds, TokenInv, NEW t \in Threads, CommitStores(t)
    PROVE  TokenInv'
BY CommitStores_Is, Hand_Is DEF Setups

\* There are no setups here.
LEMMA CommitVerifies_Token ==
    ASSUME AccountBounds, TypeInv, "setup" \notin Kinds, TokenInv, NEW t \in Threads, CommitVerifies(t)
    PROVE  TokenInv'
BY CommitVerifies_Is, Hand_Is DEF Setups

\* A crash forgets the kept token; Oxy ending a device does not show in the file.
LEMMA Other_Token ==
    ASSUME AccountBounds, TypeInv, TokenInv, SignsOut \/ Crash
    PROVE  TokenInv'
<1>1. CASE SignsOut
  BY <1>1 DEF SignsOut, machineVars, TokenInv, TokenShape, TokenOfHeld, StillHolds
<1>2. CASE Crash
  <2>1. cached' = None /\ \A u \in Threads : calls'[u].at = "idle"
    BY <1>2 DEF Crash, Idle
  <2> QED BY <2>1 DEF TokenInv, TokenOfHeld, TokenShape
<1> QED BY <1>1, <1>2

\* No step keeps a token of a credential no longer held.
LEMMA Next_Token ==
    ASSUME AccountBounds, TypeInv, "setup" \notin Kinds, TokenInv, [Next]_vars
    PROVE  TokenInv'
<1>1. ASSUME NEW t \in Threads, Asked(t) \/ Steps(t)
      PROVE  TokenInv'
  <2>1. CASE Asked(t) \/ CheckSteps(t)
    BY <2>1, Asked_Quiet, CheckSteps_Quiet, Quiet_Token
  <2>2. CASE SignInSteps(t)
    BY <2>2, SignIn_Quiet, Quiet_Token, SignIn_Token, MintToken_Token, SignInAccepted_Token,
       SetVerifier_Token, Rotate_Token, EndOnline_Token, Revoked_Token DEF SignInSteps
  <2>3. CASE TokenSteps(t)
    BY <2>3, Token_Token, MintAppToken_Token DEF TokenSteps
  <2>4. CASE RemoveSteps(t)
    BY <2>4, Remove_Token, RemoveLocks_Token, RemoveForgets_Token, FinishRemoval_Token,
       RemoveFile_Token DEF RemoveSteps
  <2>5. CASE SetupSteps(t)
    BY <2>5, EnrollSignsIn_Token, Commit_Token, CommitStores_Token, CommitVerifies_Token
       DEF SetupSteps
  <2> QED BY <1>1, <2>1, <2>2, <2>3, <2>4, <2>5 DEF Steps
<1>2. CASE PasswordChanges \/ UNCHANGED vars
  BY <1>2, Unseen_Quiet, Quiet_Token
<1> QED BY <1>1, <1>2, Other_Token DEF Next

\* A kept token was minted with the credential the file holds, however rotations,
\* revocations and removals interleave with it: those of a credential rotated,
\* forgotten or removed are not handed out again.  A setup beside them is left out:
\* it does not hold the account's calls, so its new credential may find the token
\* of the old one kept.
THEOREM AccountPlatform_TokenOfHeld ==
    ASSUME AccountBounds, "setup" \notin Kinds
    PROVE  Spec => []TokenOfHeld
<1>1. Init => TypeInv /\ TokenInv
  <2> SUFFICES ASSUME Init
               PROVE  TokenInv
    BY Init_Type
  <2>1. cached = None /\ \A t \in Threads : calls[t].at = "idle"
    BY DEF Init, Idle
  <2> QED BY <2>1 DEF TokenInv, TokenOfHeld, TokenShape
<1>2. TypeInv /\ TokenInv /\ [Next]_vars => (TypeInv /\ TokenInv)'
  BY Next_Type, Next_Token
<1>3. TokenInv => TokenOfHeld
  BY DEF TokenInv
<1> QED BY <1>1, <1>2, <1>3, PTL DEF Spec

-----------------------------------------------------------------------------
(* It can be set up again.                                                   *)

\* With removals: a user without its file is never left, and a file without its
\* user only while a removal is about to take it away.
RemovalNow ==
    /\ user => file # None
    /\ \A t \in Threads : calls[t].at = "unlisting" => ~user
    /\ ~user /\ file # None => \E t \in Threads : calls[t].at \in {"finishing", "unlisting"}

\* With setups: the one that holds the machine has made or found the user.
SetupNow ==
    /\ \A t \in Threads : HoldsMachine(calls[t]) => user
    /\ \A t \in Threads : calls[t].at = "settingUp" => file # None
    /\ (\A t \in Threads : calls[t].at # "storing") => Takable

AgainInv == faults = 0 => /\ "setup" \notin Kinds => RemovalNow
                          /\ "remove" \notin Kinds => SetupNow

\* What credentials do not notice.
LEMMA Quiet_Again ==
    ASSUME AccountBounds, TypeInv, AgainInv, Quiet
    PROVE  AgainInv'
<1> SUFFICES ASSUME faults = 0
             PROVE  /\ RemovalNow => RemovalNow'
                    /\ SetupNow => SetupNow'
  BY DEF AgainInv, Quiet, Faulty, TypeInv, TypeOK
<1>1. ASSUME NEW u \in Threads
      PROVE  calls'[u] = calls[u] \/ (calls'[u].at \in Plain /\ calls[u].at \in Loose)
  BY DEF Quiet
<1>2. UNCHANGED user /\ (file' = None <=> file = None)
  BY DEF Quiet
<1>3. RemovalNow => RemovalNow'
  BY <1>1, <1>2 DEF RemovalNow, Plain, Loose
<1>4. SetupNow => SetupNow'
  BY <1>1, <1>2 DEF SetupNow, Takable, HoldsMachine, Plain, Loose
<1> QED BY <1>3, <1>4

\* sign_in touches neither user nor file.
LEMMA SignIn_Again ==
    ASSUME AccountBounds, TypeInv, AgainInv, NEW t \in Threads, SignIn(t)
    PROVE  AgainInv'
<1> SUFFICES ASSUME faults' = 0, faults = 0, ~Quiet
             PROVE  /\ "setup" \notin Kinds => RemovalNow'
                    /\ "remove" \notin Kinds => SetupNow'
  BY Quiet_Again, SignIn_Is DEF AgainInv, Faulty
<1>1. ASSUME "setup" \notin Kinds, RemovalNow
      PROVE  RemovalNow'
  BY <1>1, SignIn_Is DEF RemovalNow, Others
<1>2. ASSUME "remove" \notin Kinds, SetupNow
      PROVE  SetupNow'
  BY <1>2, SignIn_Is DEF SetupNow, Takable, HoldsMachine, Others
<1> QED BY <1>1, <1>2 DEF AgainInv

\* mint_token touches neither user nor file.
LEMMA MintToken_Again ==
    ASSUME AccountBounds, TypeInv, AgainInv, NEW t \in Threads, MintToken(t)
    PROVE  AgainInv'
<1> SUFFICES ASSUME faults' = 0, faults = 0, ~Quiet
             PROVE  /\ "setup" \notin Kinds => RemovalNow'
                    /\ "remove" \notin Kinds => SetupNow'
  BY Quiet_Again, MintToken_Is DEF AgainInv, Faulty
<1>1. ASSUME "setup" \notin Kinds, RemovalNow
      PROVE  RemovalNow'
  BY <1>1, MintToken_Is DEF RemovalNow, Moves, Others
<1>2. ASSUME "remove" \notin Kinds, SetupNow
      PROVE  SetupNow'
  BY <1>2, MintToken_Is DEF SetupNow, Takable, HoldsMachine, Moves, Others
<1> QED BY <1>1, <1>2 DEF AgainInv

\* A rotation at Oxy touches neither user nor file.
LEMMA SignInAccepted_Again ==
    ASSUME AccountBounds, TypeInv, AgainInv, NEW t \in Threads, SignInAccepted(t)
    PROVE  AgainInv'
<1> SUFFICES ASSUME faults' = 0, faults = 0
             PROVE  /\ "setup" \notin Kinds => RemovalNow'
                    /\ "remove" \notin Kinds => SetupNow'
  BY SignInAccepted_Is DEF AgainInv, Faulty
<1>1. ASSUME "setup" \notin Kinds, RemovalNow
      PROVE  RemovalNow'
  BY <1>1, SignInAccepted_Is DEF RemovalNow, Others
<1>2. ASSUME "remove" \notin Kinds, SetupNow
      PROVE  SetupNow'
  BY <1>2, SignInAccepted_Is DEF SetupNow, Takable, HoldsMachine, Others
<1> QED BY <1>1, <1>2 DEF AgainInv

\* The verifier belongs to a user that stays.
LEMMA SetVerifier_Again ==
    ASSUME AccountBounds, TypeInv, AgainInv, NEW t \in Threads, SetVerifier(t)
    PROVE  AgainInv'
<1> SUFFICES ASSUME faults' = 0, faults = 0
             PROVE  /\ "setup" \notin Kinds => RemovalNow'
                    /\ "remove" \notin Kinds => SetupNow'
  BY SetVerifier_Is DEF AgainInv, Faulty
<1>1. ASSUME "setup" \notin Kinds, RemovalNow
      PROVE  RemovalNow'
  BY <1>1, SetVerifier_Is DEF RemovalNow, Moves, Others
<1>2. ASSUME "remove" \notin Kinds, SetupNow
      PROVE  SetupNow'
  BY <1>2, SetVerifier_Is DEF SetupNow, Takable, HoldsMachine, Moves, Others
<1> QED BY <1>1, <1>2 DEF AgainInv

\* rotate rewrites the file, it never makes or removes it.
LEMMA Rotate_Again ==
    ASSUME AccountBounds, TypeInv, AgainInv, NEW t \in Threads, Rotate(t)
    PROVE  AgainInv'
<1> SUFFICES ASSUME faults' = 0, faults = 0
             PROVE  /\ "setup" \notin Kinds => RemovalNow'
                    /\ "remove" \notin Kinds => SetupNow'
  BY Rotate_Is DEF AgainInv, Faulty
<1>1. ASSUME "setup" \notin Kinds, RemovalNow
      PROVE  RemovalNow'
  BY <1>1, Rotate_Is DEF RemovalNow, Moves, Others, StillHolds
<1>2. ASSUME "remove" \notin Kinds, SetupNow
      PROVE  SetupNow'
  BY <1>2, Rotate_Is DEF SetupNow, Takable, HoldsMachine, Moves, Others, StillHolds
<1> QED BY <1>1, <1>2 DEF AgainInv

\* end_online touches neither user nor file.
LEMMA EndOnline_Again ==
    ASSUME AccountBounds, TypeInv, AgainInv, NEW t \in Threads, EndOnline(t)
    PROVE  AgainInv'
<1> SUFFICES ASSUME faults' = 0, faults = 0
             PROVE  /\ "setup" \notin Kinds => RemovalNow'
                    /\ "remove" \notin Kinds => SetupNow'
  BY EndOnline_Is DEF AgainInv, Faulty
<1>1. ASSUME "setup" \notin Kinds, RemovalNow
      PROVE  RemovalNow'
  BY <1>1, EndOnline_Is DEF RemovalNow, Others
<1>2. ASSUME "remove" \notin Kinds, SetupNow
      PROVE  SetupNow'
  BY <1>2, EndOnline_Is DEF SetupNow, Takable, HoldsMachine, Others
<1> QED BY <1>1, <1>2 DEF AgainInv

\* revoked rewrites the file, it never makes or removes it.
LEMMA Revoked_Again ==
    ASSUME AccountBounds, TypeInv, AgainInv, NEW t \in Threads, Revoked(t)
    PROVE  AgainInv'
<1> SUFFICES ASSUME faults' = 0, faults = 0, ~Quiet
             PROVE  /\ "setup" \notin Kinds => RemovalNow'
                    /\ "remove" \notin Kinds => SetupNow'
  BY Quiet_Again, Revoked_Is DEF AgainInv, Faulty
<1>1. ASSUME "setup" \notin Kinds, RemovalNow
      PROVE  RemovalNow'
  BY <1>1, Revoked_Is DEF RemovalNow, Moves, Others, StillHolds
<1>2. ASSUME "remove" \notin Kinds, SetupNow
      PROVE  SetupNow'
  BY <1>2, Revoked_Is DEF SetupNow, Takable, HoldsMachine, StillHolds
<1> QED BY <1>1, <1>2 DEF AgainInv

\* token touches neither user nor file.
LEMMA Token_Again ==
    ASSUME AccountBounds, TypeInv, AgainInv, NEW t \in Threads, Token(t)
    PROVE  AgainInv'
<1> SUFFICES ASSUME faults' = 0, faults = 0, ~Quiet
             PROVE  /\ "setup" \notin Kinds => RemovalNow'
                    /\ "remove" \notin Kinds => SetupNow'
  BY Quiet_Again, Token_Is DEF AgainInv, Faulty
<1>1. ASSUME "setup" \notin Kinds, RemovalNow
      PROVE  RemovalNow'
  BY <1>1, Token_Is DEF RemovalNow, Others
<1>2. ASSUME "remove" \notin Kinds, SetupNow
      PROVE  SetupNow'
  BY <1>2, Token_Is DEF SetupNow, Takable, HoldsMachine, Others
<1> QED BY <1>1, <1>2 DEF AgainInv

\* A token touches neither user nor file.
LEMMA MintAppToken_Again ==
    ASSUME AccountBounds, TypeInv, AgainInv, NEW t \in Threads, MintAppToken(t)
    PROVE  AgainInv'
<1> SUFFICES ASSUME faults' = 0, faults = 0, ~Quiet
             PROVE  /\ "setup" \notin Kinds => RemovalNow'
                    /\ "remove" \notin Kinds => SetupNow'
  BY Quiet_Again, MintAppToken_Is DEF AgainInv, Faulty
<1>1. ASSUME "setup" \notin Kinds, RemovalNow
      PROVE  RemovalNow'
  BY <1>1, MintAppToken_Is DEF RemovalNow, Moves, Others
<1>2. ASSUME "remove" \notin Kinds, SetupNow
      PROVE  SetupNow'
  BY <1>2, MintAppToken_Is DEF SetupNow, Takable, HoldsMachine, Moves, Others
<1> QED BY <1>1, <1>2 DEF AgainInv

\* remove ends a device: user and file stay.
LEMMA Remove_Again ==
    ASSUME AccountBounds, TypeInv, AgainInv, NEW t \in Threads, Remove(t)
    PROVE  AgainInv'
<1> SUFFICES ASSUME faults' = 0, faults = 0, ~Quiet
             PROVE  /\ "setup" \notin Kinds => RemovalNow'
                    /\ "remove" \notin Kinds => SetupNow'
  BY Quiet_Again, Remove_Is DEF AgainInv, Faulty
<1>1. ASSUME "setup" \notin Kinds, RemovalNow
      PROVE  RemovalNow'
  BY <1>1, Remove_Is DEF RemovalNow, Moves, Others
<1>2. "remove" \in Kinds
  BY Remove_Is, Hand_Is DEF Removes
<1> QED BY <1>1, <1>2 DEF AgainInv

\* The user stays, locked.
LEMMA RemoveLocks_Again ==
    ASSUME AccountBounds, TypeInv, AgainInv, NEW t \in Threads, RemoveLocks(t)
    PROVE  AgainInv'
<1> SUFFICES ASSUME faults' = 0, faults = 0
             PROVE  /\ "setup" \notin Kinds => RemovalNow'
                    /\ "remove" \notin Kinds => SetupNow'
  BY RemoveLocks_Is DEF AgainInv, Faulty
<1>1. ASSUME "setup" \notin Kinds, RemovalNow
      PROVE  RemovalNow'
  BY <1>1, RemoveLocks_Is DEF RemovalNow, Moves, Others
<1>2. "remove" \in Kinds
  BY RemoveLocks_Is, Hand_Is DEF Removes
<1> QED BY <1>1, <1>2 DEF AgainInv

\* The file stays, without a credential.
LEMMA RemoveForgets_Again ==
    ASSUME AccountBounds, TypeInv, AgainInv, NEW t \in Threads, RemoveForgets(t)
    PROVE  AgainInv'
<1> SUFFICES ASSUME faults' = 0, faults = 0
             PROVE  /\ "setup" \notin Kinds => RemovalNow'
                    /\ "remove" \notin Kinds => SetupNow'
  BY RemoveForgets_Is DEF AgainInv, Faulty
<1>1. ASSUME "setup" \notin Kinds, RemovalNow
      PROVE  RemovalNow'
  BY <1>1, RemoveForgets_Is DEF RemovalNow, Moves, Others, Answers
<1>2. "remove" \in Kinds
  BY RemoveForgets_Is, Hand_Is DEF Removes
<1> QED BY <1>1, <1>2 DEF AgainInv

\* Once the user is gone the call that removed it goes on to the file.
LEMMA FinishRemoval_Again ==
    ASSUME AccountBounds, TypeInv, AgainInv, NEW t \in Threads, FinishRemoval(t)
    PROVE  AgainInv'
<1> SUFFICES ASSUME faults' = 0, faults = 0
             PROVE  /\ "setup" \notin Kinds => RemovalNow'
                    /\ "remove" \notin Kinds => SetupNow'
  BY FinishRemoval_Is DEF AgainInv, Faulty
<1>1. ASSUME "setup" \notin Kinds, RemovalNow
      PROVE  RemovalNow'
  <2>1. UNCHANGED file /\ Others(t)
    BY FinishRemoval_Is DEF Moves, Answers
  <2>2. CASE calls'[t].at = "unlisting" /\ ~user'
    BY <2>1, <2>2, <1>1 DEF RemovalNow, Others
  <2>3. CASE calls'[t].at = "idle" /\ user /\ user'
    BY <2>1, <2>3, <1>1 DEF RemovalNow, Others
  <2> QED BY <2>2, <2>3, FinishRemoval_Is, FinishRemoval_User DEF Moves, Answers
<1>2. "remove" \in Kinds
  BY FinishRemoval_Is, Hand_Is DEF Removes
<1> QED BY <1>1, <1>2 DEF AgainInv

\* The file of a user that is gone goes.
LEMMA RemoveFile_Again ==
    ASSUME AccountBounds, TypeInv, AgainInv, NEW t \in Threads, RemoveFile(t)
    PROVE  AgainInv'
<1> SUFFICES ASSUME faults' = 0, faults = 0
             PROVE  /\ "setup" \notin Kinds => RemovalNow'
                    /\ "remove" \notin Kinds => SetupNow'
  BY RemoveFile_Is DEF AgainInv, Faulty
<1>1. ASSUME "setup" \notin Kinds, RemovalNow
      PROVE  RemovalNow'
  BY <1>1, RemoveFile_Is DEF RemovalNow, Faulty
<1>2. "remove" \in Kinds
  BY RemoveFile_Is, Hand_Is DEF Removes
<1> QED BY <1>1, <1>2 DEF AgainInv

\* enroll touches neither user nor file.
LEMMA EnrollSignsIn_Again ==
    ASSUME AccountBounds, TypeInv, AgainInv, NEW t \in Threads, EnrollSignsIn(t)
    PROVE  AgainInv'
<1> SUFFICES ASSUME faults' = 0, faults = 0, ~Quiet
             PROVE  /\ "setup" \notin Kinds => RemovalNow'
                    /\ "remove" \notin Kinds => SetupNow'
  BY Quiet_Again, EnrollSignsIn_Is DEF AgainInv, Faulty
<1>1. "setup" \in Kinds
  BY EnrollSignsIn_Is, Hand_Is DEF Setups
<1>2. ASSUME "remove" \notin Kinds, SetupNow
      PROVE  SetupNow'
  BY <1>2, EnrollSignsIn_Is DEF SetupNow, Takable, HoldsMachine, Others
<1> QED BY <1>1, <1>2 DEF AgainInv

\* The setup that made the user holds the machine until it has written the file.
LEMMA Commit_Again ==
    ASSUME AccountBounds, TypeInv, AgainInv, NEW t \in Threads, Commit(t)
    PROVE  AgainInv'
<1> SUFFICES ASSUME faults' = 0, faults = 0
             PROVE  /\ "setup" \notin Kinds => RemovalNow'
                    /\ "remove" \notin Kinds => SetupNow'
  BY Commit_Is DEF AgainInv, Faulty
<1>1. "setup" \in Kinds
  BY Commit_Is, Hand_Is DEF Setups
<1>2. ASSUME "remove" \notin Kinds, SetupNow
      PROVE  SetupNow'
  BY <1>2, Commit_Is, Commit_User DEF SetupNow, Takable, HoldsMachine, Others
<1> QED BY <1>1, <1>2 DEF AgainInv

\* The file is written while its user exists.
LEMMA CommitStores_Again ==
    ASSUME AccountBounds, TypeInv, AgainInv, NEW t \in Threads, CommitStores(t)
    PROVE  AgainInv'
<1> SUFFICES ASSUME faults' = 0, faults = 0
             PROVE  /\ "setup" \notin Kinds => RemovalNow'
                    /\ "remove" \notin Kinds => SetupNow'
  BY CommitStores_Is DEF AgainInv, Faulty
<1>1. "setup" \in Kinds
  BY CommitStores_Is, Hand_Is DEF Setups
<1>2. ASSUME "remove" \notin Kinds, SetupNow
      PROVE  SetupNow'
  BY <1>2, CommitStores_Is DEF SetupNow, Takable, HoldsMachine, Faulty
<1> QED BY <1>1, <1>2 DEF AgainInv

\* Nothing failed, so the user is there: nothing is undone.
LEMMA CommitVerifies_Again ==
    ASSUME AccountBounds, TypeInv, AgainInv, NEW t \in Threads, CommitVerifies(t)
    PROVE  AgainInv'
<1> SUFFICES ASSUME faults' = 0, faults = 0
             PROVE  /\ "setup" \notin Kinds => RemovalNow'
                    /\ "remove" \notin Kinds => SetupNow'
  BY CommitVerifies_Is DEF AgainInv, Faulty
<1>1. "setup" \in Kinds
  BY CommitVerifies_Is, Hand_Is DEF Setups
<1>2. ASSUME "remove" \notin Kinds, SetupNow
      PROVE  SetupNow'
  <2>1. calls[t].at = "settingUp" /\ HoldsMachine(calls[t])
    BY CommitVerifies_Is DEF HoldsMachine
  <2>2. user /\ file # None
    BY <1>2, <2>1 DEF SetupNow
  <2>3. UNCHANGED <<file, user>> /\ Others(t) /\ calls'[t].at \in {"idle", "ending"}
    BY <2>2, CommitVerifies_User
  <2>4. user' /\ file' # None
    BY <2>2, <2>3
  <2> QED BY <1>2, <2>1, <2>3 DEF SetupNow, Takable
<1> QED BY <1>1, <1>2 DEF AgainInv

\* Oxy ending a device, and a crash, are faults.
LEMMA Other_Again ==
    ASSUME AccountBounds, TypeInv, SignsOut \/ Crash
    PROVE  AgainInv'
BY DEF SignsOut, Crash, Fault, AgainInv, TypeInv, TypeOK

\* No step without a fault leaves the account half there.
LEMMA Next_Again ==
    ASSUME AccountBounds, TypeInv, AgainInv, [Next]_vars
    PROVE  AgainInv'
<1>1. ASSUME NEW t \in Threads, Asked(t) \/ Steps(t)
      PROVE  AgainInv'
  <2>1. CASE Asked(t) \/ CheckSteps(t)
    BY <2>1, Asked_Quiet, CheckSteps_Quiet, Quiet_Again
  <2>2. CASE SignInSteps(t)
    BY <2>2, SignIn_Quiet, Quiet_Again, SignIn_Again, MintToken_Again, SignInAccepted_Again,
       SetVerifier_Again, Rotate_Again, EndOnline_Again, Revoked_Again DEF SignInSteps
  <2>3. CASE TokenSteps(t)
    BY <2>3, Token_Again, MintAppToken_Again DEF TokenSteps
  <2>4. CASE RemoveSteps(t)
    BY <2>4, Remove_Again, RemoveLocks_Again, RemoveForgets_Again, FinishRemoval_Again,
       RemoveFile_Again DEF RemoveSteps
  <2>5. CASE SetupSteps(t)
    BY <2>5, EnrollSignsIn_Again, Commit_Again, CommitStores_Again, CommitVerifies_Again
       DEF SetupSteps
  <2> QED BY <1>1, <2>1, <2>2, <2>3, <2>4, <2>5 DEF Steps
<1>2. CASE PasswordChanges \/ UNCHANGED vars
  BY <1>2, Unseen_Quiet, Quiet_Again
<1> QED BY <1>1, <1>2, Other_Again DEF Next

\* Once every call has been answered, and nothing failed, the account can be set up:
\* its user and its file are both there or both gone, however removals interleave
\* with one another and with sign-ins, and setups with one another.  A removal and a
\* setup of the same account at the same time are left out.
THEOREM AccountPlatform_SetUpAgain ==
    ASSUME AccountBounds, OneAtATime
    PROVE  Spec => []SetUpAgain
<1>1. Init => TypeInv /\ AgainInv
  <2> SUFFICES ASSUME Init
               PROVE  RemovalNow /\ SetupNow
    BY Init_Type DEF AgainInv
  <2>1. \A t \in Threads : calls[t].at = "idle"
    BY DEF Init, Idle
  <2>2. user <=> file # None
    <3>1. CASE file = [credential |-> 1, changed |-> FALSE] /\ user = TRUE
      <4>1. file \in Enrollment
        BY <3>1 DEF Enrollment, Credentials, AccountBounds
      <4> QED BY <3>1, <4>1 DEF AccountBounds
    <3> QED BY <3>1 DEF Init
  <2> QED BY <2>1, <2>2 DEF RemovalNow, SetupNow, HoldsMachine, Takable
<1>2. TypeInv /\ AgainInv /\ [Next]_vars => (TypeInv /\ AgainInv)'
  BY Next_Type, Next_Again
<1>3. AgainInv => SetUpAgain
  <2> SUFFICES ASSUME faults = 0, \A t \in Threads : calls[t].at = "idle", RemovalNow \/ SetupNow
               PROVE  Takable
    BY DEF AgainInv, OneAtATime, SetUpAgain, At
  <2> QED BY DEF RemovalNow, SetupNow, Takable
<1> QED BY <1>1, <1>2, <1>3, PTL DEF Spec

=============================================================================
