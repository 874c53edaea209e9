-------------------------- MODULE AccountPlatform --------------------------
(***************************************************************************)
(* The accounts' service (crates/oxyos-account/src/platform.rs, setup.rs,  *)
(* store.rs): one account of the machine, its file, its user and verifier, *)
(* and the threads that check a password, mint a token, set the account up *)
(* and remove it.                                                          *)
(*                                                                         *)
(* Oxy is a service of its own: its answer may be lost, it may be out of   *)
(* reach at any call, and it may end a device or take another password at  *)
(* any moment.  A credential is the number Oxy gave it: a rotation retires *)
(* one and issues the next, a setup's is a device of its own.  The account *)
(* is `configured` and its passwords can be verifiers; its profile is      *)
(* left out (update_profile rewrites nothing that is kept here).           *)
(***************************************************************************)
EXTENDS Naturals, FiniteSets

CONSTANTS Threads,    \* the service's threads
          Kinds,      \* what is asked of the service: the kinds of calls
          Passwords,
          MaxIssued,  \* bound on the credentials Oxy issues
          MaxCalls,   \* bound on the calls made and the passwords changed elsewhere
          MaxFaults,  \* bound on answers lost, writes failed, crashes and endings by Oxy
          None

Credentials == 1..MaxIssued
Enrollment == [credential: Credentials \cup {None}, changed: BOOLEAN]
Kept == Enrollment \cup {None}

AccountBounds == /\ MaxIssued \in Nat \ {0} /\ MaxCalls \in Nat /\ MaxFaults \in Nat
                 /\ Kinds \subseteq {"check", "token", "remove", "setup"}
                 /\ None \notin Passwords \cup Nat \cup Threads \cup Enrollment

VARIABLES
    \* Oxy
    oxyPassword, \* the account's password
    issued,      \* credentials issued so far
    live,        \* credentials whose device is signed in
    \* the machine
    file,        \* Enrollment: its credential and its flag
    user,        \* the account's user exists
    verifier,    \* the password that opens it, by PAM
    \* the service
    calls,       \* what each thread is doing
    onlineCalls, \* Live.online_calls: who holds it
    machine,     \* Setup.machine: who holds it
    cached,      \* Live.tokens: the credential the kept token was minted with
    \* what happened
    made,        \* calls made
    faults,      \* faults met
    refused,     \* passwords Oxy refused
    stray        \* credentials a fault left live with nobody to end them

oxyVars     == <<oxyPassword, issued, live>>
machineVars == <<file, user, verifier>>
history     == <<made, faults, refused, stray>>
vars == <<oxyVars, machineVars, calls, onlineCalls, machine, cached, history>>

Idle == [kind |-> "none", at |-> "idle", password |-> None, setVerifier |-> FALSE,
         old |-> None, new |-> None, before |-> None, local |-> FALSE, flagged |-> FALSE]

----------------------------------------------------------------------------
(* A thread's steps.                                                       *)

(* The thread goes on with its call.                                       *)
Goes(t, call) == calls' = [calls EXCEPT ![t] = call]
GoesTo(t, stage) == Goes(t, [calls[t] EXCEPT !.at = stage])
At(t, stage) == calls[t].at = stage

Fault == faults < MaxFaults /\ faults' = faults + 1

Replied(t) == Goes(t, Idle)

(* A mistake: the account's calls are not let go.                          *)
ConcludesHolding(t, result) == Replied(t) /\ UNCHANGED onlineCalls

(* sign_in's and token's return: the account's calls are let go; a check   *)
(* is answered, and the background's refused password is flagged.          *)
Concludes(t, result) ==
    /\ onlineCalls' = None
    /\ IF calls[t].kind = "background" /\ result = "WrongPassword"
         THEN GoesTo(t, "flagging")
         ELSE Replied(t)

(* rewrite: the file changed under the machine's lock, if it still holds   *)
(* `credential`.                                                           *)
StillHolds(credential) == file # None /\ file.credential = credential
Rewrite(credential, stored) == /\ machine = None /\ StillHolds(credential) /\ file' = stored

(* The credential an enrollment holds, if any.                             *)
CredentialOf(enrollment) == IF enrollment = None THEN None ELSE enrollment.credential

(* A call that left its credential live and forgot it.                     *)
Forgets(credentials) == stray' = stray \cup (credentials \cap live')

----------------------------------------------------------------------------
(* Oxy, of its own: a password changed elsewhere, a device signed out.     *)

PasswordChanges ==
    /\ made < MaxCalls /\ made' = made + 1
    /\ \E p \in Passwords \ {oxyPassword} : oxyPassword' = p
    /\ UNCHANGED <<issued, live, machineVars, calls, onlineCalls, machine, cached, faults, refused, stray>>

SignsOut ==
    /\ \E c \in live : live' = live \ {c}
    /\ Fault
    /\ stray' = stray \cap live'
    /\ UNCHANGED <<oxyPassword, issued, machineVars, calls, onlineCalls, machine, cached, made, refused>>

----------------------------------------------------------------------------
(* check: PAM has answered, then the service is asked.                     *)

AskCheck(t, p) ==
    /\ "check" \in Kinds /\ At(t, "idle") /\ made < MaxCalls
    /\ Goes(t, [Idle EXCEPT !.kind = "check", !.at = "checking", !.password = p,
                            !.local = user /\ verifier = p])
    /\ made' = made + 1
    /\ UNCHANGED <<oxyVars, machineVars, onlineCalls, machine, cached, faults, refused, stray>>

(* A locally accepted password of an account that is not flagged is asked  *)
(* of Oxy by a thread of its own, once it is answered; without a thread it *)
(* is not asked.                                                           *)
Check(t) ==
    /\ At(t, "checking")
    /\ IF CredentialOf(file) = None THEN Replied(t)
       ELSE IF ~calls[t].local
         THEN Goes(t, [calls[t] EXCEPT !.at = "queued", !.setVerifier = TRUE])
       ELSE IF file.changed THEN GoesTo(t, "queued")
       ELSE \/ \E b \in Threads : calls[b].at = "idle" /\ b # t
               /\ calls' = [calls EXCEPT ![t] = Idle, 
                              ![b] = [Idle EXCEPT !.kind = "background", !.at = "spawned",
                                                  !.password = calls[t].password]]
            \/ Replied(t)
    /\ UNCHANGED <<oxyVars, machineVars, onlineCalls, machine, cached, history>>

Background(t) ==
    /\ At(t, "spawned")
    /\ IF file = None THEN Replied(t)
       ELSE Goes(t, [calls[t] EXCEPT !.at = "queued", !.before = file])
    /\ UNCHANGED <<oxyVars, machineVars, onlineCalls, machine, cached, history>>

(* flag_password_changed: for the enrollment read before the sign-in.      *)
FlagPasswordChanged(t) ==
    /\ At(t, "flagging") /\ machine = None
    /\ LET read == CredentialOf(calls[t].before)
       IN  \/ read # None /\ Rewrite(read, [file EXCEPT !.changed = TRUE]) /\ UNCHANGED faults
           \/ (read = None \/ ~StillHolds(read)) /\ UNCHANGED <<file, faults>>
           \/ Fault /\ UNCHANGED file
    /\ Replied(t)
    /\ UNCHANGED <<oxyVars, user, verifier, onlineCalls, machine, cached, made, refused, stray>>

----------------------------------------------------------------------------
(* sign_in, with the account's calls held from the file read again to its  *)
(* answer.                                                                 *)

SignIn(t) ==
    /\ At(t, "queued") /\ onlineCalls = None
    /\ IF CredentialOf(file) = None
         THEN UNCHANGED onlineCalls /\ Replied(t)
         ELSE /\ onlineCalls' = t
              /\ Goes(t, [calls[t] EXCEPT !.at = "minting", !.old = file.credential,
                                           !.flagged = file.changed])
    /\ UNCHANGED <<oxyVars, machineVars, machine, cached, history>>

(* mint_token: offline or refused for another reason, the device is gone,  *)
(* or it is live.                                                          *)
MintToken(t) ==
    /\ At(t, "minting")
    /\ \/ Concludes(t, "Offline")
       \/ /\ GoesTo(t, IF calls[t].old \in live THEN "signing" ELSE "revoking")
          /\ UNCHANGED onlineCalls
    /\ UNCHANGED <<oxyVars, machineVars, machine, cached, history>>

(* sign_in_password refused: the password is wrong, Oxy cannot be reached, *)
(* or anything else, a device gone since included.                         *)
SignInRefused(t) ==
    /\ At(t, "signing")
    /\ \/ Concludes(t, "Offline") /\ UNCHANGED refused
       \/ /\ calls[t].old \in live /\ calls[t].password # oxyPassword
          /\ refused' = refused \cup {calls[t].password}
          /\ Concludes(t, "WrongPassword")
    /\ UNCHANGED <<oxyVars, machineVars, machine, cached, made, faults, stray>>

(* The authenticator is asked for: the first factor alone never becomes    *)
(* the verifier, and a password the machine knows clears the flag.         *)
SignInSecondFactor(t) ==
    /\ At(t, "signing") /\ calls[t].old \in live /\ calls[t].password = oxyPassword
    /\ IF calls[t].setVerifier
         THEN Concludes(t, "SecondFactorRequired") /\ UNCHANGED file
         ELSE /\ machine = None
              /\ Concludes(t, "PasswordRight")
              /\ IF calls[t].flagged /\ StillHolds(calls[t].old) 
                   THEN file' = [file EXCEPT !.changed = FALSE]
                   ELSE UNCHANGED file
    /\ UNCHANGED <<oxyVars, user, verifier, machine, cached, history>>

(* Oxy rotates the credential, and its answer comes or is lost.            *)
SignInAccepted(t) ==
    /\ At(t, "signing") /\ calls[t].old \in live /\ calls[t].password = oxyPassword
    /\ issued < MaxIssued /\ issued' = issued + 1
    /\ live' = (live \ {calls[t].old}) \cup {issued'}
    /\ \/ /\ Goes(t, [calls[t] EXCEPT !.new = issued',
                         !.at = IF calls[t].setVerifier THEN "verifying" ELSE "rotating"])
          /\ UNCHANGED <<onlineCalls, faults, stray>>
       \/ Fault /\ Concludes(t, "Offline") /\ Forgets({issued'})
    /\ UNCHANGED <<oxyPassword, machineVars, machine, cached, made, refused>>

(* set_verifier; one that fails is answered as failed, and the credential  *)
(* is kept all the same.                                                   *)
SetVerifier(t) ==
    /\ At(t, "verifying")
    /\ \/ user /\ verifier' = calls[t].password
       \/ UNCHANGED verifier
    /\ GoesTo(t, "rotating")
    /\ UNCHANGED <<oxyVars, file, user, onlineCalls, machine, cached, history>>

(* A mistake: the tokens of the credential replaced are kept.              *)
RotateKeepsTokens(t) ==
    /\ At(t, "rotating")
    /\ Rewrite(calls[t].old, [credential |-> calls[t].new, changed |-> FALSE])
    /\ Concludes(t, "Accepted")
    /\ UNCHANGED <<oxyVars, user, verifier, machine, cached, history>>

(* rotate: the new credential in the file if it still holds the old, its   *)
(* tokens forgotten; else, or if it cannot be written, ended online.       *)
Rotate(t) ==
    /\ At(t, "rotating") /\ machine = None
    /\ \/ /\ Rewrite(calls[t].old, [credential |-> calls[t].new, changed |-> FALSE])
          /\ cached' = None
          /\ Concludes(t, "Accepted")
          /\ UNCHANGED faults
       \/ /\ ~StillHolds(calls[t].old)
          /\ GoesTo(t, "ending")
          /\ UNCHANGED <<file, cached, onlineCalls, faults>>
       \/ /\ StillHolds(calls[t].old) /\ Fault
          /\ GoesTo(t, "ending")
          /\ UNCHANGED <<file, cached, onlineCalls>>
    /\ UNCHANGED <<oxyVars, user, verifier, machine, made, refused, stray>>

(* end_online: best effort; a credential that is not live is already gone. *)
EndOnline(t) ==
    /\ At(t, "ending")
    /\ \/ live' = live \ {calls[t].new} /\ UNCHANGED <<faults, stray>>
       \/ Fault /\ UNCHANGED live /\ Forgets({calls[t].new})
    /\ IF calls[t].kind = "setup" THEN Replied(t) /\ UNCHANGED onlineCalls
                                  ELSE Concludes(t, "Accepted")
    /\ UNCHANGED <<oxyPassword, issued, machineVars, machine, cached, made, refused>>

(* revoked: the credential forgotten if the file still holds it, then the  *)
(* verifier locked and the sessions ended, each best effort.               *)
Revoked(t) ==
    /\ At(t, "revoking") /\ machine = None
    /\ \/ /\ Rewrite(calls[t].old, [credential |-> None, changed |-> FALSE])
          /\ cached' = None
          /\ GoesTo(t, "locking")
          /\ UNCHANGED <<onlineCalls, faults>>
       \/ /\ ~StillHolds(calls[t].old)
          /\ Concludes(t, "Revoked")
          /\ UNCHANGED <<file, cached, faults>>
       \/ /\ StillHolds(calls[t].old) /\ Fault
          /\ Concludes(t, "Revoked")
          /\ UNCHANGED <<file, cached>>
    /\ UNCHANGED <<oxyVars, user, verifier, machine, made, refused, stray>>

LockVerifier(t) ==
    /\ At(t, "locking")
    /\ \/ verifier' = None /\ UNCHANGED faults
       \/ Fault /\ UNCHANGED verifier
    /\ Concludes(t, "Revoked")
    /\ UNCHANGED <<oxyVars, file, user, machine, cached, made, refused, stray>>

----------------------------------------------------------------------------
(* token: the kept one while it lasts, else a new one, rationed.           *)

AskToken(t) ==
    /\ "token" \in Kinds /\ At(t, "idle") /\ made < MaxCalls /\ file # None
    /\ Goes(t, [Idle EXCEPT !.kind = "token", !.at = "asking"])
    /\ made' = made + 1
    /\ UNCHANGED <<oxyVars, machineVars, onlineCalls, machine, cached, faults, refused, stray>>

Token(t) ==
    /\ At(t, "asking") /\ onlineCalls = None
    /\ \/ /\ file # None /\ file.credential # None
          /\ onlineCalls' = t /\ cached' = None
          /\ Goes(t, [calls[t] EXCEPT !.at = "mintingToken", !.old = file.credential])
       \/ Replied(t) /\ UNCHANGED <<onlineCalls, cached>>
    /\ UNCHANGED <<oxyVars, machineVars, machine, history>>

MintAppToken(t) ==
    /\ At(t, "mintingToken")
    /\ \/ Concludes(t, "Offline") /\ UNCHANGED cached
       \/ /\ calls[t].old \in live
          /\ cached' = calls[t].old /\ Concludes(t, "Accepted")
       \/ /\ calls[t].old \notin live
          /\ GoesTo(t, "revoking") /\ UNCHANGED <<onlineCalls, cached>>
    /\ UNCHANGED <<oxyVars, machineVars, machine, history>>

----------------------------------------------------------------------------
(* remove, and finish_removal once it is answered.                         *)

AskRemove(t) ==
    /\ "remove" \in Kinds /\ At(t, "idle") /\ made < MaxCalls /\ file # None
    /\ Goes(t, [Idle EXCEPT !.kind = "remove", !.at = "leaving"])
    /\ made' = made + 1
    /\ UNCHANGED <<oxyVars, machineVars, onlineCalls, machine, cached, faults, refused, stray>>

(* Under the account's calls, its device is ended online, best effort.     *)
Remove(t) ==
    /\ At(t, "leaving") /\ onlineCalls = None
    /\ IF file = None THEN Replied(t) /\ UNCHANGED <<live, onlineCalls, faults, stray>>
       ELSE /\ onlineCalls' = t
            /\ GoesTo(t, "shutting")
            /\ \/ live' = live \ {file.credential} /\ UNCHANGED <<faults, stray>>
               \/ Fault /\ UNCHANGED live /\ Forgets({file.credential})
    /\ UNCHANGED <<oxyPassword, issued, machineVars, machine, cached, made, refused>>

RemoveLocks(t) ==
    /\ At(t, "shutting")
    /\ \/ verifier' = None /\ UNCHANGED faults
       \/ Fault /\ UNCHANGED verifier
    /\ GoesTo(t, "forgetting")
    /\ UNCHANGED <<oxyVars, file, user, onlineCalls, machine, cached, made, refused, stray>>

RemoveForgets(t) ==
    /\ At(t, "forgetting") /\ machine = None
    /\ onlineCalls' = None
    /\ \/ /\ file' = [credential |-> None, changed |-> FALSE]
          /\ cached' = None
          /\ GoesTo(t, "finishing")
          /\ UNCHANGED faults
       \/ Fault /\ UNCHANGED <<file, cached>> /\ Replied(t)
    /\ UNCHANGED <<oxyVars, user, verifier, machine, made, refused, stray>>

(* The user and its home, unless they cannot be removed within REMOVE_WAIT.*)
FinishRemoval(t) ==
    /\ At(t, "finishing")
    /\ \/ user' = FALSE /\ verifier' = None /\ GoesTo(t, "unlisting")
       \/ user /\ UNCHANGED <<user, verifier>> /\ Replied(t)
    /\ UNCHANGED <<oxyVars, file, onlineCalls, machine, cached, history>>

RemoveFile(t) ==
    /\ At(t, "unlisting") /\ machine = None
    /\ \/ file' = None /\ UNCHANGED faults
       \/ Fault /\ UNCHANGED file
    /\ cached' = None
    /\ Replied(t)
    /\ UNCHANGED <<oxyVars, user, verifier, onlineCalls, machine, made, refused, stray>>

----------------------------------------------------------------------------
(* enroll, second_factor and finish: the machine could take the account,   *)
(* Oxy signs it in on the device handed over, and the machine takes it.    *)

(* local: neither a user nor an enrollment, or both.                       *)
Takable == user <=> file # None

Enroll(t, p) ==
    /\ "setup" \in Kinds /\ At(t, "idle") /\ made < MaxCalls /\ machine = None
    /\ Takable
    /\ Goes(t, [Idle EXCEPT !.kind = "setup", !.at = "enrolling", !.password = p])
    /\ made' = made + 1
    /\ UNCHANGED <<oxyVars, machineVars, onlineCalls, machine, cached, faults, refused, stray>>

EnrollSignsIn(t) ==
    /\ At(t, "enrolling")
    /\ \/ Replied(t) /\ UNCHANGED <<issued, live, faults, stray>>
       \/ /\ calls[t].password = oxyPassword
          /\ issued < MaxIssued /\ issued' = issued + 1
          /\ live' = live \cup {issued'}
          /\ \/ /\ Goes(t, [calls[t] EXCEPT !.at = "committing", !.new = issued'])
                /\ UNCHANGED <<faults, stray>>
             \/ Fault /\ Replied(t) /\ Forgets({issued'})
    /\ UNCHANGED <<oxyPassword, machineVars, onlineCalls, machine, cached, made, refused>>

(* commit, under the machine's lock: the user made, or the enrolled one    *)
(* found.                                                                  *)
Commit(t) ==
    /\ At(t, "committing") /\ machine = None
    /\ \/ ~Takable /\ GoesTo(t, "ending") /\ UNCHANGED <<user, machine>>
       \/ /\ Takable /\ user
          /\ machine' = t /\ UNCHANGED user
          /\ Goes(t, [calls[t] EXCEPT !.at = "storing", !.before = file])
       \/ /\ Takable /\ ~user
          /\ \/ user' = TRUE /\ machine' = t /\ GoesTo(t, "storing")
             \/ GoesTo(t, "ending") /\ UNCHANGED <<user, machine>>
    /\ UNCHANGED <<oxyVars, file, verifier, onlineCalls, cached, history>>

(* Undone: a new user is removed with its file, an enrolled account's file *)
(* is put back.  Either may fail too: what the file held is then lost.     *)
Undo(t) ==
    /\ machine' = None
    /\ GoesTo(t, "ending")
    /\ \/ file' = calls[t].before /\ UNCHANGED stray
       \/ /\ faults' > 0 /\ UNCHANGED file
          /\ Forgets({CredentialOf(calls[t].before)} \ {CredentialOf(file)})
    /\ \/ user' = (user /\ calls[t].before # None)
       \/ faults' > 0 /\ UNCHANGED user

CommitStores(t) ==
    /\ At(t, "storing")
    /\ UNCHANGED <<oxyVars, verifier, onlineCalls, cached, made, refused>>
    /\ \/ /\ file' = [credential |-> calls[t].new, changed |-> FALSE]
          /\ GoesTo(t, "settingUp")
          /\ UNCHANGED <<user, machine, faults, stray>>
       \/ Fault /\ Undo(t)

(* The verifier last; then the credential the account had is ended online. *)
CommitVerifies(t) ==
    /\ At(t, "settingUp")
    /\ UNCHANGED <<oxyVars, onlineCalls, cached, made, refused>>
    /\ \/ /\ user
          /\ verifier' = calls[t].password
          /\ machine' = None
          /\ LET previous == calls[t].before
             IN  IF CredentialOf(previous) = None THEN Replied(t)
                 ELSE Goes(t, [calls[t] EXCEPT !.at = "ending", !.new = previous.credential])
          /\ UNCHANGED <<file, user, faults, stray>>
       \/ Fault /\ Undo(t) /\ UNCHANGED verifier
       \/ ~user /\ UNCHANGED <<verifier, faults>> /\ Undo(t)

----------------------------------------------------------------------------
(* The service stops, in the middle of anything: what is in memory goes,   *)
(* the file, the user and the verifier stay.                               *)
Crash ==
    /\ Fault
    /\ \E t \in Threads : ~At(t, "idle")
    /\ calls' = [t \in Threads |-> Idle]
    /\ onlineCalls' = None /\ machine' = None /\ cached' = None
    /\ stray' = stray \cup (live \ {CredentialOf(file)})
    /\ UNCHANGED <<oxyVars, machineVars, made, refused>>

----------------------------------------------------------------------------
(* An account that was set up, or a machine without it.                    *)
Init ==
    /\ oxyPassword \in Passwords
    /\ \/ /\ issued = 1 /\ live = {1}
          /\ file = [credential |-> 1, changed |-> FALSE] /\ user = TRUE /\ verifier = oxyPassword
       \/ issued = 0 /\ live = {} /\ file = None /\ user = FALSE /\ verifier = None
    /\ calls = [t \in Threads |-> Idle]
    /\ onlineCalls = None /\ machine = None /\ cached = None
    /\ made = 0 /\ faults = 0 /\ refused = {} /\ stray = {}

SignInSteps(t) == \/ SignIn(t) \/ MintToken(t) \/ SignInRefused(t) \/ SignInSecondFactor(t)
                  \/ SignInAccepted(t) \/ SetVerifier(t) \/ Rotate(t) \/ EndOnline(t)
                  \/ Revoked(t) \/ LockVerifier(t)
CheckSteps(t)  == Check(t) \/ Background(t) \/ FlagPasswordChanged(t)
TokenSteps(t)  == Token(t) \/ MintAppToken(t)
RemoveSteps(t) == \/ Remove(t) \/ RemoveLocks(t) \/ RemoveForgets(t)
                  \/ FinishRemoval(t) \/ RemoveFile(t)
SetupSteps(t)  == EnrollSignsIn(t) \/ Commit(t) \/ CommitStores(t) \/ CommitVerifies(t)
Steps(t) == CheckSteps(t) \/ SignInSteps(t) \/ TokenSteps(t) \/ RemoveSteps(t) \/ SetupSteps(t)

Asked(t) == \/ \E p \in Passwords : AskCheck(t, p) \/ Enroll(t, p)
            \/ AskToken(t) \/ AskRemove(t)

Next == \/ \E t \in Threads : Asked(t) \/ Steps(t)
        \/ PasswordChanges \/ SignsOut \/ Crash

(* A thread goes on with its call.                                         *)
Fairness == \A t \in Threads : WF_vars(Steps(t))

Spec == Init /\ [][Next]_vars
LiveSpec == Spec /\ Fairness
----------------------------------------------------------------------------
(* Properties.                                                             *)

Stages == {"idle", "checking", "spawned", "flagging", "queued", "minting", "signing",
           "verifying", "rotating", "ending", "revoking", "locking", "asking", "mintingToken",
           "leaving", "shutting", "forgetting", "finishing", "unlisting", "enrolling",
           "committing", "storing", "settingUp"}
Call == [kind: Kinds \cup {"none", "background"}, at: Stages, password: Passwords \cup {None},
         setVerifier: BOOLEAN, old: Credentials \cup {None}, new: Credentials \cup {None},
         before: Kept, local: BOOLEAN, flagged: BOOLEAN]

(* Type correctness; and a lock is only held by a thread at work.          *)
TypeOK ==
    /\ oxyPassword \in Passwords /\ issued \in 0..MaxIssued /\ live \subseteq 1..issued
    /\ file \in Kept /\ user \in BOOLEAN /\ verifier \in Passwords \cup {None}
    /\ calls \in [Threads -> Call]
    /\ onlineCalls \in Threads \cup {None} /\ machine \in Threads \cup {None}
    /\ cached \in Credentials \cup {None}
    /\ made \in 0..MaxCalls /\ faults \in 0..MaxFaults
    /\ refused \subseteq Passwords /\ stray \subseteq 1..issued
    /\ \A t \in {onlineCalls, machine} \ {None} : ~At(t, "idle")

(* What a thread is answerable for: the credential it was issued and has   *)
(* not written, and the ones it is about to end.                           *)
InHand(t) ==
    {calls[t].new}
      \cup (IF At(t, "storing") \/ At(t, "settingUp")
              THEN {CredentialOf(calls[t].before)} ELSE {})

(* No device is left signed in at Oxy without a machine that holds it: a   *)
(* live credential is the file's, or some call will write it or end it     *)
(* (rotate, finish and end_online), but for those a crash, a lost answer,  *)
(* a refused ending or a setup that could not be undone left behind.       *)
NoStrayDevice ==
    live \subseteq stray \cup {CredentialOf(file)}
                   \cup UNION {InHand(t) : t \in Threads}

(* Without a fault the calls never cost the machine its credential: what   *)
(* the file holds is live, or the call that rotated or ended it is about   *)
(* to write (sign_in and remove hold the account's calls for it).          *)
HeldIsLive ==
    faults = 0 /\ file # None /\ file.credential # None =>
        \/ file.credential \in live
        \/ onlineCalls # None /\ calls[onlineCalls].at \in {"verifying", "rotating", "shutting", "forgetting"}

(* A kept token was minted with the credential the file holds: those of a  *)
(* credential rotated, forgotten or removed are not handed out again.      *)
TokenOfHeld == cached # None => StillHolds(cached)

(* A flagged account's verifier is a password Oxy refused: "Oxy refused a  *)
(* password the machine accepts" (store.rs).                               *)
FlagMeansRefused == file # None /\ file.changed => verifier \in refused \cup {None}

(* Once every call has been answered, and nothing failed, the account can  *)
(* be set up: its user and its file are both there or both gone.           *)
SetUpAgain == faults = 0 /\ (\A t \in Threads : At(t, "idle")) => Takable

(* Every call ends: no order of the account's calls and of the machine's   *)
(* lock leaves a thread waiting (settle).                                  *)
CallsEnd == \A t \in Threads : ~At(t, "idle") ~> At(t, "idle")
=============================================================================
