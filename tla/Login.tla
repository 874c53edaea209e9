------------------------------- MODULE Login -------------------------------
(***************************************************************************)
(* The login program: the login screen, the check of a password by a       *)
(* worker's PAM and by the accounts' service, and the passing of the seat  *)
(* to the person's session and back (tools/oxyos-login/src/manager.rs,     *)
(* run.rs and worker.rs; crates/oxyos-auth/src/greeter.rs and lib.rs).     *)
(*                                                                         *)
(* The program is one thread; each action of "The login program" below is  *)
(* one of its handlers with every Action the Manager answers carried out.  *)
(* The login screen, the workers and the threads that ask the accounts'    *)
(* service run beside it.  A password is the number of the attempt that    *)
(* brought it.  Of time only the order is kept: a wait is over (`waiting`)  *)
(* or GREETER_GRACE has passed (Tick) at any moment.                       *)
(***************************************************************************)
EXTENDS Naturals, Sequences

CONSTANTS Accounts,
          Unknown,       \* stands for every name that is not enrolled
          FreeAttempts,  \* Throttle::FREE_ATTEMPTS
          MaxAttempts,   \* bound on the passwords typed
          MaxBacklog,    \* connections the socket holds unaccepted
          ListFails,     \* whether the accounts' service may not answer `list`
          None

ASSUME AccountsAssumption == Unknown \notin Accounts /\ None \notin Accounts
ASSUME BoundsAssumption == /\ FreeAttempts \in Nat \ {0} /\ MaxAttempts \in Nat
                           /\ MaxBacklog \in Nat /\ ListFails \in BOOLEAN

VARIABLES
    \* Manager
    state,       \* State's variant
    account,     \* who is signed in: State's account, but for Greeter's
    stopped,     \* HandingOver.stopped
    checking,    \* Greeter.checking
    checks,      \* the last online check asked
    rejections,  \* Throttle.rejections of each account, and of unknown names
    waiting,     \* Throttle.until is still to come
    \* Login
    greeter,     \* the login screen's worker and its program
    due,         \* greeter_due is set
    connection,  \* the connection listened to
    backlog,     \* connections not accepted yet
    person,      \* the worker of a password or a session
    abandoned,   \* workers let go that have not ended
    password,    \* the password kept, by its attempt
    online,      \* the threads asking the accounts' service
    \* the login screen's own (Greeter)
    screen,      \* no connection yet, idle, or asking (Greeter.checking)
    answers,     \* answers on its socket, unread
    \* what happened
    tried,       \* the account of each attempt
    pamAccepted, \* attempts whose password PAM accepted
    letIn        \* attempts whose password the accounts' service accepted

managerVars == <<state, account, stopped, checking, checks>>
throttles   == <<rejections, waiting>>
screenVars  == <<greeter, due, backlog, screen>>
workerVars  == <<person, abandoned, password>>
history     == <<tried, pamAccepted, letIn>>
vars == <<managerVars, throttles, screenVars, connection, answers, workerVars, online, history>>

Names    == Accounts \cup {Unknown}
Attempts == 1..MaxAttempts
Steps    == {"pam", "pam again", "online after accepted", "online after rejected"}
Checkings   == [account : Accounts, step : Steps, check : Nat]
Connections == [alive : BOOLEAN, mail : 0..MaxAttempts]
Said     == {"accepted", "rejected", "failed", "started"}
Workers  == [attempt : Attempts \cup {None}, account : Accounts, open : BOOLEAN,
             stage : {"checking", "accepted", "opening", "running", "leaving", "ended"},
             said : Said \cup {None}]
Threads  == [check : Nat, attempt : Attempts \cup {None}, local : {"accepted", "rejected"}]

ASSUME NoneAssumption == /\ None \notin Nat /\ None \notin Said /\ None \notin Workers
                         /\ None \notin Checkings /\ None \notin Connections

ManagerTypes ==
    /\ state \in {"greeter", "handing over", "opening", "session"}
    /\ account \in Accounts \cup {None}
    /\ stopped \in BOOLEAN
    /\ checking \in Checkings \cup {None}
    /\ checks \in Nat
ThrottleTypes ==
    /\ rejections \in [Names -> 0..FreeAttempts]
    /\ waiting \in [Names -> BOOLEAN]
ScreenTypes ==
    /\ greeter \in {"none", "running", "stopping", "killed", "exited"}
    /\ due \in BOOLEAN
    /\ screen \in {"unconnected", "idle", "asking"}
    /\ answers \in Nat
MailTypes ==
    /\ connection \in Connections \cup {None}
    /\ backlog \in Seq(Connections)
    /\ tried \in Seq(Accounts)
WorkerTypes ==
    /\ person \in Workers \cup {None}
    /\ abandoned \subseteq Workers
    /\ password \in Attempts \cup {None}
    /\ online \subseteq Threads
    /\ pamAccepted \subseteq Attempts \cup {None}
    /\ letIn \subseteq Attempts \cup {None}

TypeOK == ManagerTypes /\ ThrottleTypes /\ ScreenTypes /\ MailTypes /\ WorkerTypes

\* Manager::start, and the Login it starts in.
Init ==
    /\ state = "greeter" /\ account = None /\ stopped = FALSE
    /\ checking = None /\ checks = 0
    /\ rejections = [n \in Names |-> 0] /\ waiting = [n \in Names |-> FALSE]
    /\ greeter = "none" /\ due = TRUE /\ connection = None /\ backlog = <<>>
    /\ person = None /\ abandoned = {} /\ password = None /\ online = {}
    /\ screen = "unconnected" /\ answers = 0
    /\ tried = <<>> /\ pamAccepted = {} /\ letIn = {}

-----------------------------------------------------------------------------
(* The login screen, as its process behaves (Greeter of oxyos-auth).         *)

Alive == greeter \in {"running", "stopping"}

\* Greeter::connect, once a process.
GreeterConnects ==
    /\ Alive /\ screen = "unconnected" /\ Len(backlog) < MaxBacklog
    /\ screen' = "idle"
    /\ backlog' = Append(backlog, [alive |-> TRUE, mail |-> 0])
    /\ UNCHANGED <<managerVars, throttles, greeter, due, connection, answers, workerVars,
                   online, history>>

\* Greeter::attempt: one at a time.
GreeterAttempts(a) ==
    LET n == Len(tried) + 1
        Mailed(c) == IF c.alive THEN [c EXCEPT !.mail = n] ELSE c
    IN
    /\ Alive /\ screen = "idle" /\ n \in Attempts
    /\ tried' = Append(tried, a)
    /\ screen' = "asking"
    /\ connection' = IF connection = None THEN None ELSE Mailed(connection)
    /\ backlog' = [i \in DOMAIN backlog |-> Mailed(backlog[i])]
    /\ UNCHANGED <<managerVars, throttles, greeter, due, answers, workerVars, online,
                   pamAccepted, letIn>>

\* Greeter::answer: the first answer read while asking is the attempt's.
GreeterReads ==
    /\ Alive /\ answers > 0
    /\ answers' = answers - 1
    /\ screen' = "idle"
    /\ UNCHANGED <<managerVars, throttles, greeter, due, connection, backlog, workerVars,
                   online, history>>

\* It ends (signed in, stopped or killed) or crashes; its connection stays readable.
GreeterExits ==
    LET Closed(c) == [c EXCEPT !.alive = FALSE] IN
    /\ greeter \in {"running", "stopping", "killed"}
    /\ greeter' = "exited"
    /\ screen' = "unconnected" /\ answers' = 0
    /\ connection' = IF connection = None THEN None ELSE Closed(connection)
    /\ backlog' = [i \in DOMAIN backlog |-> Closed(backlog[i])]
    /\ UNCHANGED <<managerVars, throttles, due, workerVars, online, history>>

-----------------------------------------------------------------------------
(* A worker, as its process behaves (worker.rs, run).                        *)

\* What the worker becomes changes nothing of the login program by itself.
Becomes(p) ==
    /\ person' = p
    /\ UNCHANGED <<managerVars, throttles, screenVars, connection, answers, abandoned,
                   password, online, tried, letIn>>

\* PAM's answer, told; a worker that did not accept is done.
PersonAnswers(said) ==
    /\ person # None /\ person.stage = "checking"
    /\ pamAccepted' = IF said = "accepted" THEN pamAccepted \cup {person.attempt} ELSE pamAccepted
    /\ Becomes([person EXCEPT !.said = said,
                              !.stage = IF said = "accepted" THEN "accepted" ELSE "leaving"])

\* Told to open: the session takes the seat.
PersonOpens ==
    /\ person # None /\ person.stage = "accepted" /\ person.open
    /\ Becomes([person EXCEPT !.stage = "opening"])
    /\ UNCHANGED pamAccepted

PersonStarts ==
    /\ person # None /\ person.stage = "opening"
    /\ Becomes([person EXCEPT !.stage = "running", !.said = "started"])
    /\ UNCHANGED pamAccepted

PersonFails ==
    /\ person # None /\ person.stage = "opening"
    /\ Becomes([person EXCEPT !.stage = "leaving", !.said = "failed"])
    /\ UNCHANGED pamAccepted

\* Its session ended, it has nothing left to do, or it crashed.
PersonExits ==
    /\ person # None /\ person.stage # "ended"
    /\ Becomes([person EXCEPT !.stage = "ended"])
    /\ UNCHANGED pamAccepted

-----------------------------------------------------------------------------
(* What the Manager answers, and what that does.                             *)

Min(a, b) == IF a < b THEN a ELSE b

\* Throttle::record; the count is kept as far as it decides anything here.
RecordRejected(n) ==
    /\ rejections' = [rejections EXCEPT ![n] = Min(@ + 1, FreeAttempts)]
    /\ waiting' = [waiting EXCEPT ![n] = @ \/ rejections[n] + 1 >= FreeAttempts]
RecordAccepted(n) ==
    /\ rejections' = [rejections EXCEPT ![n] = 0]
    /\ waiting' = [waiting EXCEPT ![n] = FALSE]

\* Action::Answer, on the connection there is once the message is read.
Answer == answers' = IF connection # None /\ connection.alive THEN answers + 1 ELSE answers

Freed == IF person = None THEN {} ELSE {person}

\* Manager::reject; an Answer that concludes the attempt lets its password go.
Reject(counted) ==
    /\ checking' = None /\ password' = None
    /\ IF counted THEN RecordRejected(checking.account) ELSE UNCHANGED throttles
    /\ Answer
    /\ UNCHANGED <<state, account, stopped>>

\* Manager::accept.
Accept ==
    /\ state' = "handing over" /\ account' = checking.account /\ stopped' = FALSE
    /\ checking' = None /\ password' = None
    /\ RecordAccepted(checking.account)
    /\ Answer

\* Action::Check: a worker for account a and the password kept, or none can start.
NewWorker(a, n) == [attempt |-> n, account |-> a, open |-> FALSE, stage |-> "checking",
                    said |-> None]
StartPerson(a, n) == person' = NewWorker(a, n) /\ abandoned' = abandoned \cup Freed

\* Action::AbandonCheck's worker.
AbandonPerson == person' = None /\ abandoned' = abandoned \cup Freed

\* Manager::greeter_ended: the session is opened, or the login screen is due again
\* (restart) and a check it had going abandoned.
GreeterGone ==
    IF state = "handing over"
    THEN /\ state' = "opening"
         /\ person' = IF person = None THEN None ELSE [person EXCEPT !.open = TRUE]
         /\ UNCHANGED <<account, stopped, checking, checks, abandoned, password>>
    ELSE /\ checking' = None
         /\ IF state = "greeter" /\ checking # None
            THEN AbandonPerson /\ password' = None
            ELSE UNCHANGED <<person, abandoned, password>>
         /\ UNCHANGED <<state, account, stopped, checks>>

-----------------------------------------------------------------------------
(* The login program: the steps of Login::turn.                              *)

\* The delay is over: start_greeter.
StartGreeter ==
    /\ due
    /\ due' = FALSE /\ greeter' = "running"
    /\ UNCHANGED <<managerVars, throttles, connection, backlog, screen, answers, workerVars,
                   online, history>>

\* Its worker could not be started: as if it had ended.
StartGreeterFails ==
    /\ due
    /\ due' = (state = "greeter")
    /\ GreeterGone
    /\ UNCHANGED <<throttles, greeter, connection, backlog, screen, answers, online, history>>

\* The login screen's worker was reaped: its session is closed.
GreeterEnded ==
    /\ greeter = "exited"
    /\ greeter' = "none" /\ connection' = None
    /\ due' = (due \/ state = "greeter")
    /\ GreeterGone
    /\ UNCHANGED <<throttles, backlog, screen, answers, online, history>>

\* Listener::accept: the newest connection is the one listened to.
AcceptConnection ==
    /\ backlog # <<>>
    /\ connection' = Head(backlog) /\ backlog' = Tail(backlog)
    /\ UNCHANGED <<managerVars, throttles, greeter, due, screen, answers, workerVars, online,
                   history>>

HearClosed ==
    /\ connection # None /\ ~connection.alive /\ connection.mail = 0
    /\ connection' = None
    /\ UNCHANGED <<managerVars, throttles, screenVars, answers, workerVars, online, history>>

\* hear_greeter reads attempt n.
Hears(n) ==
    /\ connection # None /\ connection.mail = n /\ n # 0
    /\ connection' = [connection EXCEPT !.mail = 0]
    /\ UNCHANGED <<screenVars, online, history>>

\* The accounts' service does not say who is enrolled: rejected.
AttemptUnlisted(n) ==
    /\ ListFails
    /\ Hears(n) /\ Answer
    /\ password' = None
    /\ UNCHANGED <<managerVars, throttles, person, abandoned>>

\* Manager::attempt, in the order it refuses.
Free == state = "greeter" /\ checking = None

AttemptBusy(n) ==
    /\ ~Free
    /\ Hears(n) /\ Answer
    /\ UNCHANGED <<managerVars, throttles, workerVars>>

AttemptThrottled(n, name) ==
    /\ Hears(n) /\ Answer
    /\ Free /\ waiting[name] /\ name \in {tried[n], Unknown}
    /\ UNCHANGED <<managerVars, throttles, workerVars>>

AttemptNotEnrolled(n) ==
    /\ Free /\ ~waiting[Unknown]
    /\ Hears(n) /\ Answer
    /\ RecordRejected(Unknown)
    /\ password' = None
    /\ UNCHANGED <<managerVars, person, abandoned>>

AttemptChecked(n) ==
    /\ Hears(n)
    /\ Free /\ ~waiting[tried[n]]
    /\ checking' = [account |-> tried[n], step |-> "pam", check |-> checks]
    /\ password' = n
    /\ StartPerson(tried[n], n)
    /\ UNCHANGED <<state, account, stopped, checks, throttles, answers>>

\* No worker starts: Manager::checked(Failed).
AttemptFails(n) ==
    /\ Hears(n) /\ Answer
    /\ Free /\ ~waiting[tried[n]]
    /\ password' = None
    /\ AbandonPerson
    /\ UNCHANGED <<managerVars, throttles>>

-----------------------------------------------------------------------------
(* hear_workers: everything the person's worker said, and its exit.          *)

At(S) == state = "greeter" /\ checking # None /\ checking.step \in S
Gone == person.stage = "ended"

\* What was said is heard, and a worker that ended is reaped.
Heard == person' = IF Gone THEN None ELSE [person EXCEPT !.said = None]

\* Manager::checked, the first answer of PAM: ask_online, by a thread that starts.
HearPam ==
    /\ person # None /\ person.said \in {"accepted", "rejected"} /\ At({"pam"})
    /\ checks' = checks + 1
    /\ online' = online \cup {[check |-> checks + 1, attempt |-> password, local |-> person.said]}
    /\ IF Gone /\ person.said = "accepted"
       THEN Reject(FALSE)       \* worker_ended: nothing left to open the session
       ELSE /\ checking' = [checking EXCEPT !.check = checks + 1,
                                            !.step = IF person.said = "accepted"
                                                     THEN "online after accepted"
                                                     ELSE "online after rejected"]
            /\ UNCHANGED <<state, account, stopped, password, throttles, answers>>
    /\ Heard
    /\ UNCHANGED <<screenVars, connection, abandoned, history>>

\* A mistake: nobody notices that no thread asks.
HearPamUnasked ==
    /\ person # None /\ person.said \in {"accepted", "rejected"} /\ At({"pam"})
    /\ checks' = checks + 1
    /\ checking' = [checking EXCEPT !.check = checks + 1, !.step = "online after rejected"]
    /\ Heard
    /\ UNCHANGED <<state, account, stopped, throttles, screenVars, connection, answers,
                   abandoned, password, online, history>>

\* No thread starts: online_checked(Unreachable), the worker abandoned if it waits.
HearPamAlone ==
    /\ person # None /\ person.said \in {"accepted", "rejected"} /\ At({"pam"})
    /\ checks' = checks + 1
    /\ Reject(FALSE)
    /\ IF person.said = "accepted" /\ ~Gone THEN AbandonPerson ELSE Heard /\ UNCHANGED abandoned
    /\ UNCHANGED <<screenVars, connection, online, history>>

\* Manager::checked after the service accepted: PAM's answer is the last.
HearPamAccepted ==
    /\ person # None /\ person.said = "accepted" /\ At({"pam again"})
    /\ ~Gone
    /\ Accept /\ Heard
    /\ UNCHANGED <<checks, screenVars, connection, abandoned, online, history>>

\* A mistake: the exit that came with the answer is missed.
HearPamAcceptedBlind ==
    /\ person # None /\ person.said = "accepted" /\ At({"pam again"})
    /\ Gone
    /\ Accept /\ Heard
    /\ UNCHANGED <<checks, screenVars, connection, abandoned, online, history>>

\* The same, and worker_ended at once: the login screen has been told all the same.
HearPamAcceptedLost ==
    /\ person # None /\ person.said = "accepted" /\ At({"pam again"})
    /\ Gone
    /\ checking' = None /\ password' = None
    /\ RecordAccepted(checking.account)
    /\ Answer /\ Heard
    /\ UNCHANGED <<state, account, stopped, checks, screenVars, connection, abandoned, online,
                   history>>

HearPamRejected ==
    /\ person # None /\ person.said = "rejected" /\ At({"pam again"})
    /\ Reject(TRUE) /\ Heard
    /\ UNCHANGED <<checks, screenVars, connection, abandoned, online, history>>

\* Failed, or gone without an answer, or gone while the service is asked: no guess.
HearFailure ==
    /\ person # None
    /\ \/ At({"pam", "pam again"}) /\ (person.said = "failed" \/ (person.said = None /\ Gone))
       \/ At({"online after accepted"}) /\ Gone
    /\ Reject(FALSE) /\ Heard
    /\ UNCHANGED <<checks, screenVars, connection, abandoned, online, history>>

HearStarted ==
    /\ person # None /\ person.said = "started" /\ state = "opening" /\ ~Gone
    /\ state' = "session"
    /\ Heard
    /\ UNCHANGED <<account, stopped, checking, checks, throttles, screenVars, connection,
                   answers, abandoned, password, online, history>>

\* Manager::worker_ended of a session, started or not: the login screen again.
SessionOver ==
    /\ person # None /\ Gone /\ state \in {"opening", "session"}
    /\ state' = "greeter" /\ account' = None /\ stopped' = FALSE
    /\ due' = TRUE
    /\ Heard
    /\ UNCHANGED <<checking, checks, throttles, greeter, backlog, screen, connection, answers,
                   abandoned, password, online, history>>

\* A mistake: a login screen is started beside the one that is ending.
WorkerLostRestarts ==
    /\ person # None /\ Gone /\ state = "handing over"
    /\ state' = "greeter" /\ account' = None /\ stopped' = FALSE
    /\ due' = TRUE
    /\ Heard
    /\ UNCHANGED <<checking, checks, throttles, greeter, backlog, screen, connection, answers,
                   abandoned, password, online, history>>

\* Manager::worker_ended while handing over.
WorkerLost ==
    /\ person # None /\ Gone /\ state = "handing over"
    /\ state' = "greeter" /\ account' = None /\ stopped' = FALSE
    /\ Heard
    /\ UNCHANGED <<checking, checks, throttles, screenVars, connection, answers, abandoned,
                   password, online, history>>

\* What changes nothing: a worker that rejected ends, a session's failure is heard
\* before its exit.
HearNothing ==
    /\ person # None
    /\ \/ Gone /\ (Free \/ At({"online after rejected"}))
       \/ ~Gone /\ person.said = "failed" /\ state = "opening"
    /\ Heard
    /\ UNCHANGED <<managerVars, throttles, screenVars, connection, answers, abandoned,
                   password, online, history>>

-----------------------------------------------------------------------------
(* Manager::online_checked.                                                  *)

Answers(t, verdict) ==
    /\ online' = online \ {t}
    /\ letIn' = IF verdict = "accepted" THEN letIn \cup {t.attempt} ELSE letIn
    /\ UNCHANGED <<checks, screenVars, connection, tried, pamAccepted>>

\* Whether an answer is to the check waited for; a mistake takes any answer.
CurrentAny(t) == At({"online after accepted", "online after rejected"})
Current(t) == /\ At({"online after accepted", "online after rejected"})
              /\ checking.check = t.check

\* An answer to a check given up since.
OnlineStale(t, verdict) ==
    /\ ~Current(t)
    /\ Answers(t, verdict)
    /\ UNCHANGED <<state, account, stopped, checking, throttles, answers, workerVars>>

OnlineAccepted(t) ==
    /\ Current(t) /\ checking.step = "online after accepted"
    /\ Answers(t, "accepted")
    /\ Accept
    /\ UNCHANGED <<person, abandoned>>

\* The password was changed elsewhere: PAM checks it again, with a new worker.
OnlineReplaced(t) ==
    /\ Current(t) /\ checking.step = "online after rejected"
    /\ Answers(t, "accepted")
    /\ checking' = [checking EXCEPT !.step = "pam again"]
    /\ StartPerson(checking.account, password)
    /\ UNCHANGED <<state, account, stopped, throttles, answers, password>>

OnlineReplacedFails(t) ==
    /\ Current(t) /\ checking.step = "online after rejected"
    /\ Answers(t, "accepted")
    /\ Reject(FALSE)
    /\ AbandonPerson

OnlineRefused(t, verdict) ==
    /\ Current(t) /\ verdict \in {"rejected", "unreachable"}
    /\ Answers(t, verdict)
    /\ Reject(verdict = "rejected")
    /\ IF checking.step = "online after accepted"
       THEN AbandonPerson
       ELSE UNCHANGED <<person, abandoned>>

-----------------------------------------------------------------------------
(* Time, and what ends by itself.                                            *)

\* A mistake: the session is let in while the login screen still ends.
TickOpens ==
    /\ state = "handing over" /\ person # None
    /\ IF stopped THEN state' = "opening" /\ person' = [person EXCEPT !.open = TRUE]
                  ELSE UNCHANGED <<state, person>>
    /\ stopped' = TRUE
    /\ UNCHANGED <<account, checking, checks, throttles, screenVars, connection, answers,
                   abandoned, password, online, history>>

\* Manager::tick after GREETER_GRACE: stop the login screen, then kill it.
Tick ==
    /\ state = "handing over"
    /\ stopped' = TRUE
    /\ greeter' = IF greeter \notin {"running", "stopping"} THEN greeter
                  ELSE IF stopped THEN "killed" ELSE "stopping"
    /\ UNCHANGED <<state, account, checking, checks, throttles, due, backlog, screen,
                   connection, answers, workerVars, online, history>>

WaitOver(n) ==
    /\ waiting[n]
    /\ waiting' = [waiting EXCEPT ![n] = FALSE]
    /\ UNCHANGED <<managerVars, rejections, screenVars, connection, answers, workerVars,
                   online, history>>

\* An abandoned worker hears its channel close, ends and is reaped.
Reap(w) ==
    /\ w \in abandoned
    /\ abandoned' = abandoned \ {w}
    /\ UNCHANGED <<managerVars, throttles, screenVars, connection, answers, person, password,
                   online, history>>

-----------------------------------------------------------------------------
HearAttempt(n) ==
    \/ AttemptUnlisted(n) \/ AttemptBusy(n)
    \/ \E name \in Names : AttemptThrottled(n, name)
    \/ AttemptNotEnrolled(n) \/ AttemptChecked(n) \/ AttemptFails(n)

HearPerson ==
    \/ HearPam \/ HearPamAlone \/ HearPamAccepted \/ HearPamAcceptedLost \/ HearPamRejected
    \/ HearFailure \/ HearStarted \/ SessionOver \/ WorkerLost \/ HearNothing

HearOnline(t) ==
    \/ \E verdict \in {"accepted", "rejected", "unreachable"} :
          OnlineStale(t, verdict) \/ OnlineRefused(t, verdict)
    \/ OnlineAccepted(t) \/ OnlineReplaced(t) \/ OnlineReplacedFails(t)

PersonActs ==
    \/ \E said \in {"accepted", "rejected", "failed"} : PersonAnswers(said)
    \/ PersonOpens \/ PersonStarts \/ PersonFails \/ PersonExits

ScreenActs == \/ GreeterConnects \/ GreeterReads \/ GreeterExits
              \/ \E a \in Accounts : GreeterAttempts(a)

Next ==
    \/ StartGreeter \/ StartGreeterFails \/ GreeterEnded \/ AcceptConnection \/ HearClosed
    \/ \E n \in Attempts : HearAttempt(n)
    \/ HearPerson
    \/ \E t \in online : HearOnline(t)
    \/ Tick
    \/ \E n \in Names : WaitOver(n)
    \/ \E w \in abandoned : Reap(w)
    \/ PersonActs
    \/ ScreenActs

Spec == Init /\ [][Next]_vars

\* The turn runs at least every tenth of a second and takes each of its steps.  PAM
\* and the service answer or fail, a worker does what is left to it, a killed
\* process goes, and the login screen can be started in the end.  The login screen
\* may never end by itself, nor a session.
PersonGoesOn ==
    \/ \E said \in {"accepted", "rejected", "failed"} : PersonAnswers(said)
    \/ PersonOpens \/ PersonStarts \/ PersonFails
    \/ person # None /\ person.stage = "leaving" /\ PersonExits

Fairness ==
    /\ SF_vars(StartGreeter)
    /\ WF_vars(GreeterEnded)
    /\ WF_vars(HearPerson)
    /\ WF_vars(\E t \in online : HearOnline(t))
    /\ WF_vars(Tick)
    /\ WF_vars(PersonGoesOn)
    /\ WF_vars(greeter = "killed" /\ GreeterExits)

LiveSpec == Spec /\ Fairness

-----------------------------------------------------------------------------
(* Properties.                                                               *)

OnSeat(w) == w.stage \in {"opening", "running"}

\* The person's session opens only once the login screen has ended, and no login
\* screen starts until it has ended: they never share the seat, whatever crashes,
\* stops or fails to start on the way.
SeatExclusive ==
    person # None /\ (person.open \/ OnSeat(person)) /\ person.stage # "ended"
        => greeter = "none" /\ ~due

\* While someone is signed in there is a worker to open, run or report the end of
\* their session, and it is theirs: the login screen can always come back.
WorkerForSession ==
    state # "greeter" => /\ person # None /\ person.account = account
                         /\ checking = None
                         /\ state = "handing over" => greeter # "none" \/ due

\* A session is opened only with a password that PAM and the accounts' service
\* accepted, both for the same attempt and its own account, however late the
\* answers of earlier attempts come.
SessionEarned ==
    person # None /\ person.open =>
        /\ person.attempt \in pamAccepted \cap letIn
        /\ tried[person.attempt] = person.account

\* No worker that was let go has been told to open a session.
AbandonedStayShut == \A w \in abandoned : ~w.open /\ ~OnSeat(w)

\* The password is kept exactly while its attempt is checked, and is the one the
\* account checked was typed with: "until its check has concluded" (run.rs).
PasswordKept ==
    /\ (password = None) = (checking = None)
    /\ password # None => tried[password] = checking.account

\* No password of an account whose throttle waits is being checked.
ThrottleHolds == checking # None => ~waiting[checking.account]

\* Who has the seat, and who was let in but has not got it yet.
SeatOwner == IF person # None /\ OnSeat(person) THEN person.account
             ELSE IF greeter \in {"running", "stopping", "killed"} THEN "screen" ELSE None
SeatLetIn == IF /\ person # None /\ person.stage = "accepted"
                /\ state \in {"handing over", "opening"}
             THEN account ELSE None

Seat == INSTANCE SeatHandover WITH Screen <- "screen", owner <- SeatOwner, letIn <- SeatLetIn

\* What the login program promises of the seat: the login screen or one session has
\* it, a session gets it only for the account let in, once the login screen left.
SeatPromise == Seat!Spec

\* Every check of a password concludes.
CheckConcludes == checking # None ~> checking = None

\* A handover ends, though the login screen may not of itself.
HandoverEnds == state = "handing over" ~> state # "handing over"

\* The login screen comes back after a session, a crash or a start that failed,
\* whatever workers are left behind.
ScreenReturns == state = "greeter" /\ greeter = "none" ~> greeter # "none" \/ state # "greeter"

\* A login screen that was told Accepted is stopped, and killed if it must be:
\* "if it has not within GREETER_GRACE it is stopped, and killed after as long
\* again" (manager.rs).
ToldScreenEnds == state = "handing over" /\ greeter = "running" ~> greeter # "running"

\* A session is earned by a password accepted, and passwords are kept and throttled
\* as they are checked.
SessionsEarned == SessionEarned /\ AbandonedStayShut /\ PasswordKept /\ ThrottleHolds

\* Whatever is begun at the login screen ends.
LoginGoesOn == CheckConcludes /\ HandoverEnds /\ ScreenReturns
=============================================================================
