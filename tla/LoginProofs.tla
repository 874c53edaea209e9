----------------------------- MODULE LoginProofs -----------------------------
(***************************************************************************)
(* Proofs about the login program, for any accounts, attempts and backlog: *)
(* type correctness, that the login screen and a session never share the   *)
(* seat, and that a session is earned by a password accepted twice.        *)
(***************************************************************************)
EXTENDS Login, TLAPS

USE AccountsAssumption, BoundsAssumption, NoneAssumption
USE DEF managerVars, throttles, screenVars, workerVars, history

-----------------------------------------------------------------------------
(* Types.                                                                    *)

\* What waits to be read on a connection is an attempt that was made.
MailSent ==
    /\ connection # None => connection.mail <= Len(tried)
    /\ \A i \in 1..Len(backlog) : backlog[i].mail <= Len(tried)

TypeInv == TypeOK /\ MailSent

\* What the helpers keep of the types.
LEMMA RecordRejected_Type ==
    ASSUME ThrottleTypes, NEW n \in Names, RecordRejected(n)
    PROVE  ThrottleTypes'
<1>1. rejections' \in [Names -> 0..FreeAttempts]
  BY DEF ThrottleTypes, RecordRejected, Min
<1>2. waiting' \in [Names -> BOOLEAN]
  <2>1. PICK w \in BOOLEAN : waiting' = [waiting EXCEPT ![n] = w]
    BY Zenon DEF RecordRejected
  <2> QED BY <2>1 DEF ThrottleTypes
<1> QED BY <1>1, <1>2 DEF ThrottleTypes

\* Throttle::record of a password accepted keeps the throttles well formed.
LEMMA RecordAccepted_Type ==
    ASSUME ThrottleTypes, NEW n \in Names, RecordAccepted(n)
    PROVE  ThrottleTypes'
BY DEF ThrottleTypes, RecordAccepted

\* A check is always of an enrolled account, so it has a throttle.
LEMMA Checking_Account ==
    ASSUME ManagerTypes, checking # None
    PROVE  checking.account \in Accounts /\ checking.account \in Names
BY DEF ManagerTypes, Checkings, Names

\* Counters apart from the Booleans beside them.
LEMMA Counters_Type ==
    ASSUME TypeOK
    PROVE  /\ checks \in Nat /\ checks + 1 \in Nat
           /\ answers \in Nat /\ answers + 1 \in Nat
<1>1. checks \in Nat /\ answers \in Nat
  BY DEF TypeOK, ManagerTypes, ScreenTypes
<1> QED BY <1>1

\* hear_greeter reads an attempt that was made, so its account is known.
LEMMA Hears_Account ==
    ASSUME TypeInv, NEW n \in Attempts, Hears(n)
    PROVE  tried[n] \in Accounts
BY DEF TypeInv, TypeOK, MailTypes, MailSent, Hears, Attempts, Connections

\* A backlog changed connection by connection stays one.
LEMMA Backlog_Mapped ==
    ASSUME NEW b \in Seq(Connections), NEW F(_), NEW m \in Nat,
           \A c \in Connections : F(c) \in Connections,
           \A i \in 1..Len(b) : F(b[i]).mail <= m
    PROVE  /\ [i \in DOMAIN b |-> F(b[i])] \in Seq(Connections)
           /\ \A i \in 1..Len([j \in DOMAIN b |-> F(b[j])]) :
                  [j \in DOMAIN b |-> F(b[j])][i].mail <= m
<1> DEFINE g == [i \in DOMAIN b |-> F(b[i])]
<1>1. DOMAIN b = 1..Len(b) /\ Len(b) \in Nat /\ \A i \in 1..Len(b) : b[i] \in Connections
  OBVIOUS
<1>2. DOMAIN g = 1..Len(b) /\ \A i \in 1..Len(b) : g[i] = F(b[i])
  BY <1>1
<1>3. g \in [1..Len(b) -> Connections]
  BY <1>1, <1>2
<1>4. g \in Seq(Connections) /\ Len(g) = Len(b)
  BY <1>1, <1>3
<1> QED BY <1>2, <1>4

\* Action::Answer only counts the answers on the socket up.
LEMMA Answer_Type ==
    ASSUME answers \in Nat, Answer
    PROVE  answers' \in Nat
BY DEF Answer

\* A worker that was heard is a worker still, or reaped.
LEMMA Heard_Type ==
    ASSUME person \in Workers, Heard
    PROVE  person' \in Workers \cup {None}
BY DEF Heard, Workers

\* The worker there is, and what is let go with it.
LEMMA Person_Type ==
    ASSUME WorkerTypes
    PROVE  /\ person # None => person \in Workers
           /\ Freed \subseteq Workers
BY DEF WorkerTypes, Freed

\* The throttles.
LEMMA ThrottleTypes_Next == TypeInv /\ [Next]_vars => ThrottleTypes'
<1> SUFFICES ASSUME TypeInv, [Next]_vars PROVE ThrottleTypes'
  OBVIOUS
<1> USE DEF TypeInv, TypeOK
<1>1. CASE PersonActs
  BY <1>1 DEF PersonActs, PersonAnswers, PersonOpens, PersonStarts, PersonFails, PersonExits,
       Becomes, ThrottleTypes
<1>2. CASE ScreenActs
  BY <1>2 DEF ScreenActs, GreeterConnects, GreeterReads, GreeterExits, GreeterAttempts,
       ThrottleTypes
<1>3. ASSUME NEW n \in Attempts, HearAttempt(n) PROVE ThrottleTypes'
  <2>1. Unknown \in Names
    BY DEF Names
  <2> QED
    BY <1>3, <2>1, RecordRejected_Type
    DEF HearAttempt, AttemptUnlisted, AttemptBusy, AttemptThrottled, AttemptNotEnrolled,
        AttemptChecked, AttemptFails, ThrottleTypes
<1>4. CASE HearPerson
  BY <1>4, RecordRejected_Type, RecordAccepted_Type, Checking_Account
  DEF HearPerson, HearPam, HearPamAlone, HearPamAccepted, HearPamAcceptedLost, HearPamRejected,
      HearFailure, HearStarted, SessionOver, WorkerLost, HearNothing, Reject, Accept, At,
      ThrottleTypes
<1>5. ASSUME NEW t \in online, HearOnline(t) PROVE ThrottleTypes'
  BY <1>5, RecordRejected_Type, RecordAccepted_Type, Checking_Account
  DEF HearOnline, OnlineStale, OnlineAccepted, OnlineReplaced, OnlineReplacedFails,
      OnlineRefused, Current, At, Reject, Accept, ThrottleTypes
<1>6. ASSUME NEW n \in Names, WaitOver(n) PROVE ThrottleTypes'
  BY <1>6 DEF WaitOver, ThrottleTypes
<1>7. CASE \/ StartGreeter \/ StartGreeterFails \/ GreeterEnded \/ AcceptConnection \/ HearClosed
           \/ Tick \/ (\E w \in abandoned : Reap(w)) \/ UNCHANGED vars
  BY <1>7 DEF StartGreeter, StartGreeterFails, GreeterEnded, AcceptConnection, HearClosed, Tick,
       Reap, vars, ThrottleTypes
<1> QED BY <1>1, <1>2, <1>3, <1>4, <1>5, <1>6, <1>7 DEF Next

\* The Manager's state.
LEMMA ManagerTypes_Next == TypeInv /\ [Next]_vars => ManagerTypes'
<1> SUFFICES ASSUME TypeInv, [Next]_vars PROVE ManagerTypes'
  OBVIOUS
<1> USE DEF TypeInv, TypeOK
<1>1. CASE PersonActs
  BY <1>1 DEF PersonActs, PersonAnswers, PersonOpens, PersonStarts, PersonFails, PersonExits,
       Becomes, ManagerTypes
<1>2. CASE ScreenActs
  BY <1>2 DEF ScreenActs, GreeterConnects, GreeterReads, GreeterExits, GreeterAttempts,
       ManagerTypes
<1>3. ASSUME NEW n \in Attempts, HearAttempt(n) PROVE ManagerTypes'
  <2>1. CASE AttemptChecked(n)
    <3>1. [account |-> tried[n], step |-> "pam", check |-> checks] \in Checkings
      BY <2>1, Hears_Account DEF AttemptChecked, Checkings, Steps, ManagerTypes
    <3> QED BY <2>1, <3>1 DEF AttemptChecked, ManagerTypes
  <2> QED
    BY <1>3, <2>1 DEF HearAttempt, AttemptUnlisted, AttemptBusy, AttemptThrottled,
        AttemptNotEnrolled, AttemptFails, ManagerTypes
<1>4. CASE HearPerson
  <2>1. CASE HearPam
    <3>1. checks' \in Nat
      BY <2>1, Counters_Type DEF HearPam
    <3>2. checking \in Checkings
      BY <2>1 DEF HearPam, At, ManagerTypes
    <3>3. checking' = None \/ \E s \in Steps, c \in Nat :
                                checking' = [checking EXCEPT !.check = c, !.step = s]
      BY <2>1, Counters_Type DEF HearPam, Reject, Steps
    <3>4. checking' \in Checkings \cup {None}
      BY <3>2, <3>3 DEF Checkings
    <3> QED BY <2>1, <3>1, <3>4 DEF HearPam, Reject, ManagerTypes
  <2>2. CASE HearPamAlone \/ HearPamRejected \/ HearFailure \/ HearPamAcceptedLost
    <3>1. checks' \in Nat
      BY <2>2, Counters_Type DEF HearPamAlone, HearPamRejected, HearFailure, HearPamAcceptedLost
    <3> QED
      BY <2>2, <3>1 DEF HearPamAlone, HearPamRejected, HearFailure, HearPamAcceptedLost, Reject,
          ManagerTypes
  <2>3. CASE HearPamAccepted
    <3>1. stopped' \in BOOLEAN
      BY <2>3 DEF HearPamAccepted, Accept
    <3> QED BY <2>3, <3>1, Checking_Account DEF HearPamAccepted, Accept, At, ManagerTypes
  <2>4. CASE HearStarted \/ HearNothing
    BY <2>4 DEF HearStarted, HearNothing, ManagerTypes
  <2>5. CASE SessionOver \/ WorkerLost
    <3>1. stopped' \in BOOLEAN
      BY <2>5 DEF SessionOver, WorkerLost
    <3> QED BY <2>5, <3>1 DEF SessionOver, WorkerLost, ManagerTypes
  <2> QED BY <1>4, <2>1, <2>2, <2>3, <2>4, <2>5 DEF HearPerson
<1>5. ASSUME NEW t \in online, HearOnline(t) PROVE ManagerTypes'
  <2>1. CASE OnlineAccepted(t)
    <3>1. stopped' \in BOOLEAN
      BY <2>1 DEF OnlineAccepted, Accept
    <3> QED
      BY <2>1, <3>1, Checking_Account DEF OnlineAccepted, Answers, Accept, Current, At, ManagerTypes
  <2>2. CASE OnlineReplaced(t)
    BY <2>2 DEF OnlineReplaced, Answers, Current, At, ManagerTypes, Checkings, Steps
  <2> QED
    BY <1>5, <2>1, <2>2 DEF HearOnline, OnlineStale, OnlineReplacedFails, OnlineRefused, Answers,
        Reject, ManagerTypes
<1>6. CASE StartGreeterFails \/ GreeterEnded
  BY <1>6 DEF StartGreeterFails, GreeterEnded, GreeterGone, ManagerTypes
<1>7. CASE Tick
  BY <1>7 DEF Tick, ManagerTypes
<1>8. CASE \/ StartGreeter \/ AcceptConnection \/ HearClosed \/ (\E n \in Names : WaitOver(n))
           \/ (\E w \in abandoned : Reap(w)) \/ UNCHANGED vars
  BY <1>8 DEF StartGreeter, AcceptConnection, HearClosed, WaitOver, Reap, vars, ManagerTypes
<1> QED BY <1>1, <1>2, <1>3, <1>4, <1>5, <1>6, <1>7, <1>8 DEF Next

\* The login screen's process.
LEMMA ScreenTypes_Next == TypeInv /\ [Next]_vars => ScreenTypes'
<1> SUFFICES ASSUME TypeInv, [Next]_vars PROVE ScreenTypes'
  OBVIOUS
<1> USE DEF TypeInv, TypeOK
<1>1. CASE PersonActs
  BY <1>1 DEF PersonActs, PersonAnswers, PersonOpens, PersonStarts, PersonFails, PersonExits,
       Becomes, ScreenTypes
<1>2. CASE ScreenActs
  <2>1. answers' \in Nat
    BY <1>2, Counters_Type DEF ScreenActs, GreeterConnects, GreeterReads, GreeterExits, GreeterAttempts
  <2> QED
    BY <1>2, <2>1 DEF ScreenActs, GreeterConnects, GreeterReads, GreeterExits, GreeterAttempts,
        ScreenTypes
<1>3. ASSUME NEW n \in Attempts, HearAttempt(n) PROVE ScreenTypes'
  <2>1. answers' \in Nat
    BY <1>3, Counters_Type, Answer_Type DEF HearAttempt, AttemptUnlisted, AttemptBusy,
       AttemptThrottled, AttemptNotEnrolled, AttemptChecked, AttemptFails
  <2>2. UNCHANGED screenVars
    BY <1>3 DEF HearAttempt, AttemptUnlisted, AttemptBusy, AttemptThrottled, AttemptNotEnrolled,
       AttemptChecked, AttemptFails, Hears
  <2> QED BY <2>1, <2>2 DEF ScreenTypes
<1>4. CASE HearPerson
  <2>1. answers' \in Nat
    BY <1>4, Counters_Type, Answer_Type DEF HearPerson, HearPam, HearPamAlone, HearPamAccepted,
       HearPamAcceptedLost, HearPamRejected, HearFailure, HearStarted, SessionOver, WorkerLost,
       HearNothing, Reject, Accept
  <2>2. UNCHANGED <<greeter, screen>> /\ (due' = due \/ due' = TRUE)
    BY <1>4 DEF HearPerson, HearPam, HearPamAlone, HearPamAccepted, HearPamAcceptedLost,
       HearPamRejected, HearFailure, HearStarted, SessionOver, WorkerLost, HearNothing
  <2> QED BY <2>1, <2>2 DEF ScreenTypes
<1>5. ASSUME NEW t \in online, HearOnline(t) PROVE ScreenTypes'
  <2>1. answers' \in Nat
    BY <1>5, Counters_Type, Answer_Type DEF HearOnline, OnlineStale, OnlineAccepted,
       OnlineReplaced, OnlineReplacedFails, OnlineRefused, Reject, Accept
  <2>2. UNCHANGED screenVars
    BY <1>5 DEF HearOnline, OnlineStale, OnlineAccepted, OnlineReplaced, OnlineReplacedFails,
       OnlineRefused, Answers
  <2> QED BY <2>1, <2>2 DEF ScreenTypes
<1>6. CASE StartGreeter \/ StartGreeterFails \/ GreeterEnded
  <2>1. due' \in BOOLEAN
    BY <1>6 DEF StartGreeter, StartGreeterFails, GreeterEnded
  <2> QED BY <1>6, <2>1 DEF StartGreeter, StartGreeterFails, GreeterEnded, ScreenTypes
<1>7. CASE Tick
  BY <1>7 DEF Tick, ScreenTypes
<1>8. CASE \/ AcceptConnection \/ HearClosed \/ (\E n \in Names : WaitOver(n))
           \/ (\E w \in abandoned : Reap(w)) \/ UNCHANGED vars
  BY <1>8 DEF AcceptConnection, HearClosed, WaitOver, Reap, vars, ScreenTypes
<1> QED BY <1>1, <1>2, <1>3, <1>4, <1>5, <1>6, <1>7, <1>8 DEF Next

\* The connections and what waits on them.
LEMMA Mail_Next == TypeInv /\ [Next]_vars => MailTypes' /\ MailSent'
<1> SUFFICES ASSUME TypeInv, [Next]_vars PROVE MailTypes' /\ MailSent'
  OBVIOUS
<1> USE DEF TypeInv, TypeOK
<1>1. CASE UNCHANGED <<connection, backlog, tried>>
  BY <1>1 DEF MailTypes, MailSent
<1>2. CASE connection' = None /\ UNCHANGED <<backlog, tried>>
  BY <1>2 DEF MailTypes, MailSent
<1>3. CASE PersonActs
  BY <1>1, <1>3 DEF PersonActs, PersonAnswers, PersonOpens, PersonStarts, PersonFails,
     PersonExits, Becomes
<1>4. CASE GreeterConnects
  BY <1>4 DEF GreeterConnects, MailTypes, MailSent, Connections
<1>5. CASE GreeterReads
  BY <1>1, <1>5 DEF GreeterReads
<1>6. CASE GreeterExits
  <2> DEFINE Closed(c) == [c EXCEPT !.alive = FALSE]
  <2>1. \A c \in Connections : Closed(c) \in Connections /\ Closed(c).mail = c.mail
    BY DEF Connections
  <2>2. Len(tried) \in Nat /\ backlog \in Seq(Connections)
    BY DEF MailTypes
  <2>3. \A i \in 1..Len(backlog) : Closed(backlog[i]).mail <= Len(tried)
    BY <2>1, <2>2 DEF MailSent
  <2> HIDE DEF Closed
  <2>4. /\ [i \in DOMAIN backlog |-> Closed(backlog[i])] \in Seq(Connections)
        /\ \A i \in 1..Len([j \in DOMAIN backlog |-> Closed(backlog[j])]) :
               [j \in DOMAIN backlog |-> Closed(backlog[j])][i].mail <= Len(tried)
    BY <2>1, <2>2, <2>3, Backlog_Mapped
  <2>5. /\ backlog' = [i \in DOMAIN backlog |-> Closed(backlog[i])]
        /\ connection' = IF connection = None THEN None ELSE Closed(connection)
        /\ tried' = tried
    BY <1>6 DEF GreeterExits, Closed
  <2> QED BY <2>1, <2>4, <2>5 DEF MailTypes, MailSent
<1>7. ASSUME NEW a \in Accounts, GreeterAttempts(a) PROVE MailTypes' /\ MailSent'
  <2> DEFINE n == Len(tried) + 1
             Mailed(c) == IF c.alive THEN [c EXCEPT !.mail = n] ELSE c
  <2>0. Len(tried) \in Nat /\ n \in 0..MaxAttempts /\ backlog \in Seq(Connections)
    BY <1>7 DEF MailTypes, GreeterAttempts, Attempts
  <2>1. \A c \in Connections : /\ Mailed(c) \in Connections
                               /\ Mailed(c).mail = n \/ Mailed(c).mail = c.mail
    BY <2>0 DEF Connections
  <2>2. tried' \in Seq(Accounts) /\ Len(tried') = n
    BY <1>7 DEF GreeterAttempts, MailTypes
  <2> HIDE DEF Mailed
  <2>3. \A c \in Connections : c.mail <= Len(tried) => Mailed(c).mail <= n
    <3>1. \A c \in Connections : c.mail \in Nat
      BY DEF Connections
    <3> QED BY <2>0, <2>1, <3>1
  <2>4. \A i \in 1..Len(backlog) : Mailed(backlog[i]).mail <= n
    <3>1. \A i \in 1..Len(backlog) : backlog[i] \in Connections
      BY <2>0
    <3> QED BY <2>3, <3>1 DEF MailSent
  <2>5. /\ [i \in DOMAIN backlog |-> Mailed(backlog[i])] \in Seq(Connections)
        /\ \A i \in 1..Len([j \in DOMAIN backlog |-> Mailed(backlog[j])]) :
               [j \in DOMAIN backlog |-> Mailed(backlog[j])][i].mail <= n
    BY <2>0, <2>1, <2>4, Backlog_Mapped
  <2>6. /\ backlog' = [i \in DOMAIN backlog |-> Mailed(backlog[i])]
        /\ connection' = IF connection = None THEN None ELSE Mailed(connection)
    BY <1>7 DEF GreeterAttempts, Mailed
  <2>7. connection' # None => connection' \in Connections /\ connection'.mail <= n
    BY <2>1, <2>3, <2>6 DEF MailTypes, MailSent
  <2> QED BY <2>2, <2>5, <2>6, <2>7 DEF MailTypes, MailSent
<1>8. ASSUME NEW n \in Attempts, HearAttempt(n) PROVE MailTypes' /\ MailSent'
  <2>1. Hears(n)
    BY <1>8 DEF HearAttempt, AttemptUnlisted, AttemptBusy, AttemptThrottled, AttemptNotEnrolled,
       AttemptChecked, AttemptFails
  <2> QED BY <2>1 DEF Hears, MailTypes, MailSent, Connections
<1>9. CASE HearPerson
  BY <1>1, <1>9 DEF HearPerson, HearPam, HearPamAlone, HearPamAccepted, HearPamAcceptedLost,
     HearPamRejected, HearFailure, HearStarted, SessionOver, WorkerLost, HearNothing
<1>10. ASSUME NEW t \in online, HearOnline(t) PROVE MailTypes' /\ MailSent'
  BY <1>1, <1>10 DEF HearOnline, OnlineStale, OnlineAccepted, OnlineReplaced,
     OnlineReplacedFails, OnlineRefused, Answers
<1>11. CASE AcceptConnection
  BY <1>11 DEF AcceptConnection, MailTypes, MailSent
<1>12. CASE HearClosed \/ GreeterEnded
  BY <1>2, <1>12 DEF HearClosed, GreeterEnded
<1>13. CASE \/ StartGreeter \/ StartGreeterFails \/ Tick \/ (\E n \in Names : WaitOver(n))
            \/ (\E w \in abandoned : Reap(w)) \/ UNCHANGED vars
  BY <1>1, <1>13 DEF StartGreeter, StartGreeterFails, Tick, WaitOver, Reap, vars
<1> QED BY <1>3, <1>4, <1>5, <1>6, <1>7, <1>8, <1>9, <1>10, <1>11, <1>12, <1>13
        DEF Next, ScreenActs

\* What the helpers that start, let go and reap a worker keep of the types.
LEMMA StartPerson_Type ==
    ASSUME WorkerTypes, NEW a \in Accounts, NEW n \in Attempts \cup {None}, StartPerson(a, n)
    PROVE  person' \in Workers /\ abandoned' \subseteq Workers
<1>1. NewWorker(a, n) \in Workers
  BY DEF NewWorker, Workers
<1> QED BY <1>1, Person_Type DEF StartPerson, WorkerTypes

\* Action::AbandonCheck lets one well-formed worker go.
LEMMA AbandonPerson_Type ==
    ASSUME WorkerTypes, AbandonPerson
    PROVE  person' = None /\ abandoned' \subseteq Workers
BY Person_Type DEF AbandonPerson, WorkerTypes

\* A step of the worker process (worker.rs, run) changes only itself and what PAM accepted.
LEMMA PersonActs_Type ==
    ASSUME WorkerTypes, PersonActs
    PROVE  /\ person' \in Workers
           /\ UNCHANGED <<abandoned, password, online, letIn>>
           /\ pamAccepted' \subseteq Attempts \cup {None}
<1> USE Person_Type
<1>1. ASSUME NEW said \in {"accepted", "rejected", "failed"}, PersonAnswers(said)
      PROVE  /\ person' \in Workers
             /\ UNCHANGED <<abandoned, password, online, letIn>>
             /\ pamAccepted' \subseteq Attempts \cup {None}
  <2>1. person \in Workers
    BY <1>1 DEF PersonAnswers, WorkerTypes
  <2>2. person' \in Workers
    BY <1>1, <2>1 DEF PersonAnswers, Becomes, Workers, Said
  <2>3. person.attempt \in Attempts \cup {None}
    BY <2>1 DEF Workers
  <2> QED BY <1>1, <2>2, <2>3 DEF PersonAnswers, Becomes, WorkerTypes
<1>2. CASE PersonOpens
  BY <1>2 DEF PersonOpens, Becomes, Workers, WorkerTypes
<1>3. CASE PersonStarts
  BY <1>3 DEF PersonStarts, Becomes, Workers, Said, WorkerTypes
<1>4. CASE PersonFails
  BY <1>4 DEF PersonFails, Becomes, Workers, Said, WorkerTypes
<1>5. CASE PersonExits
  BY <1>5 DEF PersonExits, Becomes, Workers, WorkerTypes
<1> QED BY <1>1, <1>2, <1>3, <1>4, <1>5 DEF PersonActs

\* What a step of the worker process makes of its record: how far it is, and what
\* it said last (worker.rs, run).
LEMMA Person_Step ==
    ASSUME person \in Workers, PersonActs
    PROVE  /\ person'.account = person.account /\ person'.open = person.open
           /\ \/ /\ person.stage = "checking"
                 /\ \/ person'.stage = "accepted" /\ person'.said = "accepted"
                    \/ person'.stage = "leaving" /\ person'.said \in {"rejected", "failed"}
              \/ /\ person.stage = "accepted" /\ person.open
                 /\ person'.stage = "opening" /\ person'.said = person.said
              \/ /\ person.stage = "opening"
                 /\ \/ person'.stage = "running" /\ person'.said = "started"
                    \/ person'.stage = "leaving" /\ person'.said = "failed"
              \/ person.stage # "ended" /\ person'.stage = "ended" /\ person'.said = person.said
<1> USE DEF Workers, Becomes
<1>1. ASSUME NEW said \in {"accepted", "rejected", "failed"}, PersonAnswers(said)
      PROVE  /\ person'.account = person.account /\ person'.open = person.open
             /\ person.stage = "checking"
             /\ \/ person'.stage = "accepted" /\ person'.said = "accepted"
                \/ person'.stage = "leaving" /\ person'.said \in {"rejected", "failed"}
  BY <1>1 DEF PersonAnswers
<1>2. CASE PersonOpens
  BY <1>2 DEF PersonOpens
<1>3. CASE PersonStarts
  BY <1>3 DEF PersonStarts
<1>4. CASE PersonFails
  BY <1>4 DEF PersonFails
<1>5. CASE PersonExits
  BY <1>5 DEF PersonExits
<1> QED BY <1>1, <1>2, <1>3, <1>4, <1>5 DEF PersonActs

\* The workers, the threads and what was answered.
LEMMA WorkerTypes_Next == TypeInv /\ [Next]_vars => WorkerTypes'
<1> SUFFICES ASSUME TypeInv, [Next]_vars PROVE WorkerTypes'
  OBVIOUS
<1> USE DEF TypeInv, TypeOK
<1>1. CASE PersonActs
  BY <1>1, PersonActs_Type DEF WorkerTypes
<1>2. CASE ScreenActs
  BY <1>2 DEF ScreenActs, GreeterConnects, GreeterReads, GreeterExits, GreeterAttempts,
     WorkerTypes
<1>3. ASSUME NEW n \in Attempts, HearAttempt(n) PROVE WorkerTypes'
  <2>1. UNCHANGED <<online, pamAccepted, letIn>>
    BY <1>3 DEF HearAttempt, AttemptUnlisted, AttemptBusy, AttemptThrottled, AttemptNotEnrolled,
       AttemptChecked, AttemptFails, Hears
  <2>2. password' \in {password, n, None}
    BY <1>3 DEF HearAttempt, AttemptUnlisted, AttemptBusy, AttemptThrottled, AttemptNotEnrolled,
       AttemptChecked, AttemptFails
  <2>3. person' \in Workers \cup {None} /\ abandoned' \subseteq Workers
    <3>1. CASE AttemptChecked(n)
      BY <3>1, StartPerson_Type, Hears_Account DEF AttemptChecked
    <3>2. CASE AttemptFails(n)
      BY <3>2, AbandonPerson_Type DEF AttemptFails
    <3> QED BY <1>3, <3>1, <3>2 DEF HearAttempt, AttemptUnlisted, AttemptBusy, AttemptThrottled,
            AttemptNotEnrolled, WorkerTypes
  <2> QED BY <2>1, <2>2, <2>3 DEF WorkerTypes
<1>4. CASE HearPerson
  <2>1. UNCHANGED <<pamAccepted, letIn>>
    BY <1>4 DEF HearPerson, HearPam, HearPamAlone, HearPamAccepted, HearPamAcceptedLost,
       HearPamRejected, HearFailure, HearStarted, SessionOver, WorkerLost, HearNothing
  <2>2. password' \in {password, None}
    BY <1>4 DEF HearPerson, HearPam, HearPamAlone, HearPamAccepted, HearPamAcceptedLost,
       HearPamRejected, HearFailure, HearStarted, SessionOver, WorkerLost, HearNothing, Reject,
       Accept
  <2>3. person \in Workers
    BY <1>4, Person_Type DEF HearPerson, HearPam, HearPamAlone, HearPamAccepted,
       HearPamAcceptedLost, HearPamRejected, HearFailure, HearStarted, SessionOver, WorkerLost,
       HearNothing
  <2>4. person' \in Workers \cup {None} /\ abandoned' \subseteq Workers
    BY <1>4, <2>3, Heard_Type, AbandonPerson_Type
    DEF HearPerson, HearPam, HearPamAlone, HearPamAccepted, HearPamAcceptedLost, HearPamRejected,
        HearFailure, HearStarted, SessionOver, WorkerLost, HearNothing, WorkerTypes
  <2>5. online' \subseteq Threads
    <3>1. CASE HearPam
      <4>1. PICK c \in Nat : online' = online \cup
                 {[check |-> c, attempt |-> password, local |-> person.said]}
        BY <3>1, Counters_Type DEF HearPam
      <4> QED BY <3>1, <4>1 DEF HearPam, Threads, WorkerTypes
    <3> QED BY <1>4, <3>1 DEF HearPerson, HearPamAlone, HearPamAccepted, HearPamAcceptedLost,
            HearPamRejected, HearFailure, HearStarted, SessionOver, WorkerLost, HearNothing,
            WorkerTypes
  <2> QED BY <2>1, <2>2, <2>4, <2>5 DEF WorkerTypes
<1>5. ASSUME NEW t \in online, HearOnline(t) PROVE WorkerTypes'
  <2>1. \E verdict \in {"accepted", "rejected", "unreachable"} : Answers(t, verdict)
    BY <1>5 DEF HearOnline, OnlineStale, OnlineAccepted, OnlineReplaced, OnlineReplacedFails,
       OnlineRefused
  <2>2. t.attempt \in Attempts \cup {None}
    BY DEF WorkerTypes, Threads
  <2>3. /\ online' \subseteq Threads /\ pamAccepted' \subseteq Attempts \cup {None}
        /\ letIn' \subseteq Attempts \cup {None}
    BY <2>1, <2>2 DEF Answers, WorkerTypes
  <2>4. password' \in {password, None}
    BY <1>5 DEF HearOnline, OnlineStale, OnlineAccepted, OnlineReplaced, OnlineReplacedFails,
       OnlineRefused, Reject, Accept
  <2>5. person' \in Workers \cup {None} /\ abandoned' \subseteq Workers
    <3>1. CASE OnlineReplaced(t)
      BY <3>1, StartPerson_Type, Checking_Account DEF OnlineReplaced, Current, At, WorkerTypes
    <3>2. CASE OnlineReplacedFails(t)
      BY <3>2, AbandonPerson_Type DEF OnlineReplacedFails, WorkerTypes
    <3>3. ASSUME NEW v \in {"accepted", "rejected", "unreachable"}, OnlineRefused(t, v)
          PROVE  person' \in Workers \cup {None} /\ abandoned' \subseteq Workers
      BY <3>3, AbandonPerson_Type DEF OnlineRefused, WorkerTypes
    <3>4. CASE OnlineAccepted(t)
      BY <3>4 DEF OnlineAccepted, WorkerTypes
    <3>5. ASSUME NEW v \in {"accepted", "rejected", "unreachable"}, OnlineStale(t, v)
          PROVE  person' \in Workers \cup {None} /\ abandoned' \subseteq Workers
      BY <3>5 DEF OnlineStale, WorkerTypes
    <3> QED BY <1>5, <3>1, <3>2, <3>3, <3>4, <3>5 DEF HearOnline
  <2> QED BY <2>3, <2>4, <2>5 DEF WorkerTypes
<1>6. CASE StartGreeterFails \/ GreeterEnded
  <2>1. UNCHANGED <<online, pamAccepted, letIn>> /\ GreeterGone
    BY <1>6 DEF StartGreeterFails, GreeterEnded
  <2>2. person' \in Workers \cup {None} /\ abandoned' \subseteq Workers
    <3>1. CASE state = "handing over"
      <4>1. abandoned' = abandoned
        BY <2>1, <3>1 DEF GreeterGone
      <4>2. ASSUME person = None PROVE person' \in Workers \cup {None}
        BY <2>1, <3>1, <4>2 DEF GreeterGone
      <4>3. ASSUME person # None PROVE person' \in Workers \cup {None}
        <5>1. person \in Workers
          BY <4>3 DEF WorkerTypes
        <5>2. person' = [person EXCEPT !.open = TRUE]
          BY <2>1, <3>1, <4>3 DEF GreeterGone
        <5> QED BY <5>1, <5>2 DEF Workers
      <4> QED BY <4>1, <4>2, <4>3 DEF WorkerTypes
    <3>2. CASE state # "handing over"
      BY <2>1, <3>2, AbandonPerson_Type DEF GreeterGone, WorkerTypes
    <3> QED BY <3>1, <3>2
  <2> QED BY <2>1, <2>2 DEF GreeterGone, WorkerTypes
<1>7. CASE \/ StartGreeter \/ AcceptConnection \/ HearClosed \/ Tick
           \/ (\E n \in Names : WaitOver(n)) \/ (\E w \in abandoned : Reap(w))
           \/ UNCHANGED vars
  BY <1>7 DEF StartGreeter, AcceptConnection, HearClosed, Tick, WaitOver, Reap, vars, WorkerTypes
<1> QED BY <1>1, <1>2, <1>3, <1>4, <1>5, <1>6, <1>7 DEF Next

\* The program starts with nobody signed in and nothing said.
LEMMA TypeInv_Init == Init => TypeInv
<1> SUFFICES ASSUME Init PROVE TypeInv
  OBVIOUS
<1>1. ManagerTypes /\ ScreenTypes
  BY DEF Init, ManagerTypes, ScreenTypes
<1>2. ThrottleTypes
  <2>1. rejections \in [Names -> 0..FreeAttempts]
    BY DEF Init
  <2>2. waiting \in [Names -> BOOLEAN]
    BY DEF Init
  <2> QED BY <2>1, <2>2 DEF ThrottleTypes
<1>3. MailTypes /\ MailSent /\ WorkerTypes
  BY DEF Init, MailTypes, MailSent, WorkerTypes
<1> QED BY <1>1, <1>2, <1>3 DEF TypeInv, TypeOK

\* Every step keeps every part of the type invariant.
LEMMA TypeInv_Next == TypeInv /\ [Next]_vars => TypeInv'
BY ThrottleTypes_Next, ManagerTypes_Next, ScreenTypes_Next, Mail_Next, WorkerTypes_Next
DEF TypeInv, TypeOK

\* The login program is type correct, and what waits on a connection is an attempt
\* that was made: hear_greeter never reads an account nobody typed.
THEOREM Login_TypeOK == Spec => []TypeOK
<1>1. TypeInv => TypeOK
  BY DEF TypeInv
<1> QED BY <1>1, TypeInv_Init, TypeInv_Next, PTL DEF Spec

-----------------------------------------------------------------------------
(* The seat.                                                                 *)

\* A login screen is due or there, never both, whenever one is needed.
ScreenInv ==
    /\ ~(due /\ greeter # "none")
    /\ state \in {"greeter", "handing over"} => due \/ greeter # "none"
    /\ state \in {"opening", "session"} => ~due /\ greeter = "none"

\* Whom the worker is for, and how far it can be, in each state of the Manager.
PersonInv ==
    /\ state # "greeter" => person # None /\ person.account = account /\ checking = None
    /\ state = "handing over" => person.stage \in {"accepted", "ended"} /\ person.said = None
    /\ state = "session" => person.stage \in {"running", "ended"}
    /\ person # None => /\ person.said = "started" => person.stage \in {"running", "ended"}
                        /\ person.open <=> state \in {"opening", "session"}
                        /\ OnSeat(person) => person.open
                        /\ person.stage = "checking" => ~person.open
                        /\ person.said = "accepted" =>
                               person.stage \in {"accepted", "ended"} /\ ~person.open

\* Whom the worker is for, and how far it can be, at each step of a check.
CheckInv ==
    /\ At({"pam", "pam again", "online after accepted"}) =>
           person # None /\ person.account = checking.account
    /\ At({"online after accepted"}) =>
           person.stage \in {"accepted", "ended"} /\ person.said = None

SeatInv == ScreenInv /\ PersonInv /\ CheckInv /\ AbandonedStayShut

\* At the start a login screen is due and there is no worker.
LEMMA SeatInv_Init == Init => SeatInv
BY DEF Init, SeatInv, ScreenInv, PersonInv, CheckInv, AbandonedStayShut, At

\* Steps of the worker.
LEMMA SeatInv_Person == TypeInv /\ SeatInv /\ PersonActs => SeatInv'
<1> SUFFICES ASSUME TypeInv, SeatInv, PersonActs PROVE SeatInv'
  OBVIOUS
<1>1. UNCHANGED <<state, account, checking, greeter, due, abandoned>>
  BY DEF PersonActs, PersonAnswers, PersonOpens, PersonStarts, PersonFails, PersonExits, Becomes
<1>2. person \in Workers /\ person # None
  BY Person_Type DEF TypeInv, TypeOK, PersonActs, PersonAnswers, PersonOpens, PersonStarts,
     PersonFails, PersonExits
<1>3. /\ person' \in Workers /\ person' # None
      /\ person'.account = person.account /\ person'.open = person.open
  <2>1. person' \in Workers /\ person' # None
    BY PersonActs_Type DEF TypeInv, TypeOK
  <2>2. person'.account = person.account /\ person'.open = person.open
    BY <1>2, Person_Step
  <2> QED BY <2>1, <2>2
<1>4. /\ person'.said = "accepted" => \/ person'.stage = "accepted" /\ person.stage = "checking"
                                      \/ person.said = "accepted" /\ person'.stage = "ended"
                                      \/ person.open /\ person.said = "accepted"
      /\ OnSeat(person') => person.open
      /\ person.stage \in {"accepted", "ended"} /\ ~person.open =>
            person'.stage = "ended" /\ person'.said = person.said
  BY <1>2, Person_Step DEF SeatInv, PersonInv, OnSeat
<1>5. /\ person'.stage # "checking"
      /\ person.stage \in {"running", "ended"} => person'.stage = "ended"
      /\ person'.said = "started" => \/ person'.stage \in {"running", "ended"}
                                     \/ person.said = "started" /\ person.stage \notin {"running", "ended"}
  BY <1>2, Person_Step
<1>6. ScreenInv' /\ AbandonedStayShut'
  BY <1>1 DEF SeatInv, ScreenInv, AbandonedStayShut
<1>7. PersonInv'
  BY <1>1, <1>2, <1>3, <1>4, <1>5 DEF SeatInv, PersonInv, OnSeat
<1>8. CheckInv'
  BY <1>1, <1>2, <1>3, <1>4 DEF SeatInv, PersonInv, CheckInv, At
<1> QED BY <1>6, <1>7, <1>8 DEF SeatInv

\* Steps of the login screen: it never goes before its worker is reaped.
LEMMA SeatInv_Screen == TypeInv /\ SeatInv /\ ScreenActs => SeatInv'
<1> SUFFICES ASSUME TypeInv, SeatInv, ScreenActs PROVE SeatInv'
  OBVIOUS
<1>1. /\ UNCHANGED <<state, account, checking, person, due, abandoned>>
      /\ greeter' = greeter \/ (greeter' # "none" /\ greeter # "none")
  BY DEF ScreenActs, GreeterConnects, GreeterReads, GreeterExits, GreeterAttempts
<1> QED BY <1>1 DEF SeatInv, ScreenInv, PersonInv, CheckInv, AbandonedStayShut, At

\* A worker is let go only while nobody is signed in, and so with its session shut.
LEMMA Freed_Shut ==
    ASSUME SeatInv, state = "greeter",
           abandoned' = abandoned \cup Freed \/ abandoned' = abandoned
    PROVE  AbandonedStayShut'
BY DEF SeatInv, PersonInv, AbandonedStayShut, Freed

\* A worker that has just started.
LEMMA NewWorker_Is ==
    ASSUME NEW a \in Accounts, NEW n \in Attempts \cup {None}, StartPerson(a, n)
    PROVE  /\ person' # None /\ person'.account = a /\ ~person'.open
           /\ person'.stage = "checking" /\ person'.said = None
<1>1. NewWorker(a, n) \in Workers
  BY DEF NewWorker, Workers
<1> QED BY <1>1 DEF StartPerson, NewWorker

\* What the login screen sends.
LEMMA SeatInv_Attempt ==
    TypeInv /\ SeatInv => \A n \in Attempts : HearAttempt(n) => SeatInv'
<1> SUFFICES ASSUME TypeInv, SeatInv, NEW n \in Attempts, HearAttempt(n) PROVE SeatInv'
  OBVIOUS
<1>1. Hears(n)
  BY DEF HearAttempt, AttemptUnlisted, AttemptBusy, AttemptThrottled, AttemptNotEnrolled,
     AttemptChecked, AttemptFails
<1>2. UNCHANGED <<state, account, greeter, due>>
  BY <1>1 DEF HearAttempt, AttemptUnlisted, AttemptBusy, AttemptThrottled, AttemptNotEnrolled,
     AttemptChecked, AttemptFails, Hears
<1>3. ScreenInv'
  BY <1>2 DEF SeatInv, ScreenInv
<1>4. CASE AttemptChecked(n)
  <2>1. /\ person' # None /\ person'.account = tried[n] /\ ~person'.open
        /\ person'.stage = "checking" /\ person'.said = None
    BY <1>1, <1>4, Hears_Account, NewWorker_Is DEF AttemptChecked
  <2>2. /\ state = "greeter" /\ checking'.account = tried[n] /\ checking'.step = "pam"
        /\ abandoned' = abandoned \cup Freed
    BY <1>4 DEF AttemptChecked, Free, StartPerson
  <2>3. PersonInv'
    <3>1. state' = "greeter"
      BY <1>2, <2>2
    <3>2. ~OnSeat(person)'
      BY <2>1 DEF OnSeat
    <3>3. person'.said \notin {"accepted", "started"}
      BY <2>1 DEF Said
    <3> QED BY <2>1, <3>1, <3>2, <3>3 DEF PersonInv
  <2>4. CheckInv'
    BY <1>2, <2>1, <2>2 DEF CheckInv, At
  <2> QED BY <1>3, <2>2, <2>3, <2>4, Freed_Shut DEF SeatInv
<1>5. CASE AttemptFails(n)
  <2>1. /\ person' = None /\ state = "greeter" /\ checking' = None
        /\ abandoned' = abandoned \cup Freed
    BY <1>5 DEF AttemptFails, Free, AbandonPerson
  <2> QED BY <1>2, <1>3, <2>1, Freed_Shut DEF SeatInv, PersonInv, CheckInv, At
<1>6. CASE ~AttemptChecked(n) /\ ~AttemptFails(n)
  <2>1. UNCHANGED <<checking, person, abandoned>>
    BY <1>6 DEF HearAttempt, AttemptUnlisted, AttemptBusy, AttemptThrottled, AttemptNotEnrolled
  <2> QED BY <1>2, <1>3, <2>1 DEF SeatInv, PersonInv, CheckInv, AbandonedStayShut, At
<1> QED BY <1>4, <1>5, <1>6

\* What hearing a worker leaves of it.
LEMMA Heard_Is ==
    ASSUME TypeInv, person # None, Heard
    PROVE  /\ Gone => person' = None
           /\ ~Gone => /\ person' # None /\ person'.said = None
                       /\ person'.account = person.account /\ person'.stage = person.stage
                       /\ person'.open = person.open
<1>1. person \in Workers
  BY Person_Type DEF TypeInv, TypeOK
<1>2. ~Gone => person' \in Workers
  BY <1>1 DEF Heard, Workers
<1> QED BY <1>1, <1>2 DEF Heard, Workers

\* A check is over, or was given up, and nobody is signed in.
LEMMA Seat_Idle ==
    ASSUME TypeInv, SeatInv, ScreenInv', state = "greeter", state' = "greeter", checking' = None,
           \/ AbandonPerson
           \/ Heard /\ person # None /\ abandoned' = abandoned
           \/ UNCHANGED <<person, abandoned>>
    PROVE  SeatInv'
<1>1. AbandonedStayShut'
  BY Freed_Shut DEF AbandonPerson
<1>2. CheckInv'
  BY DEF CheckInv, At
<1>3. CASE AbandonPerson
  BY <1>1, <1>2, <1>3 DEF SeatInv, PersonInv, AbandonPerson
<1>4. CASE Heard /\ person # None
  <2>1. person' # None => /\ person'.said = None /\ person'.stage = person.stage
                          /\ person'.open = person.open
    BY <1>4, Heard_Is
  <2>2. person' # None => person'.said \notin {"accepted", "started"}
    BY <2>1 DEF Said
  <2> QED BY <1>1, <1>2, <1>4, <2>1, <2>2 DEF SeatInv, PersonInv, OnSeat
<1>5. CASE UNCHANGED <<person, abandoned>>
  BY <1>1, <1>2, <1>5 DEF SeatInv, PersonInv, OnSeat
<1> QED BY <1>3, <1>4, <1>5

\* A password is accepted: the worker that checked it waits to open the session.
LEMMA Seat_Accepted ==
    ASSUME TypeInv, SeatInv, At(Steps), Accept, UNCHANGED <<greeter, due, abandoned>>,
           person' # None, person'.account = checking.account, person'.said = None,
           person'.stage \in {"accepted", "ended"}, ~person'.open
    PROVE  SeatInv'
<1>1. state = "greeter" /\ state' = "handing over" /\ account' = checking.account
      /\ checking' = None
  BY DEF At, Accept
<1>2. ScreenInv' /\ AbandonedStayShut'
  BY <1>1 DEF SeatInv, ScreenInv, AbandonedStayShut
<1>3. CheckInv'
  BY <1>1 DEF CheckInv, At
<1>4. person'.said \notin {"accepted", "started"}
  BY DEF Said
<1>5. PersonInv'
  BY <1>1, <1>4 DEF PersonInv, OnSeat
<1> QED BY <1>2, <1>3, <1>5 DEF SeatInv

\* What the person's worker says, and its exit.
LEMMA SeatInv_Hear == TypeInv /\ SeatInv /\ HearPerson => SeatInv'
<1> SUFFICES ASSUME TypeInv, SeatInv, HearPerson PROVE SeatInv'
  OBVIOUS
<1>0. person # None /\ UNCHANGED greeter
  BY DEF HearPerson, HearPam, HearPamAlone, HearPamAccepted, HearPamAcceptedLost,
     HearPamRejected, HearFailure, HearStarted, SessionOver, WorkerLost, HearNothing
<1>1. CASE HearPam
  <2>1. state = "greeter" /\ state' = "greeter" /\ UNCHANGED <<due, abandoned>> /\ Heard
    BY <1>1 DEF HearPam, Reject, At
  <2>2. ScreenInv'
    BY <1>0, <2>1 DEF SeatInv, ScreenInv
  <2>3. CASE Gone /\ person.said = "accepted"
    <3>1. checking' = None
      BY <1>1, <2>3 DEF HearPam, Reject
    <3> QED BY <1>0, <2>1, <2>2, <3>1, Seat_Idle
  <2>4. CASE ~(Gone /\ person.said = "accepted")
    <3>1. checking \in Checkings
      BY <1>1 DEF HearPam, At, TypeInv, TypeOK, ManagerTypes
    <3>2. /\ checking'.account = checking.account
          /\ checking'.step = IF person.said = "accepted" THEN "online after accepted"
                              ELSE "online after rejected"
      BY <1>1, <2>4, <3>1 DEF HearPam, Checkings
    <3>3. person' # None => /\ person'.account = person.account /\ person'.said = None
                            /\ person'.stage = person.stage /\ person'.open = person.open
      BY <1>0, <2>1, Heard_Is
    <3>4. person.said = "accepted" => person' # None
      BY <1>0, <2>1, <2>4, Heard_Is
    <3>5. person' # None => person'.said \notin {"accepted", "started"}
      BY <3>3 DEF Said
    <3>6. PersonInv'
      BY <1>0, <2>1, <3>3, <3>5 DEF SeatInv, PersonInv, OnSeat
    <3>7. CheckInv'
      BY <1>0, <1>1, <2>1, <3>2, <3>3, <3>4 DEF SeatInv, PersonInv, CheckInv, At, HearPam
    <3> QED BY <2>1, <2>2, <3>6, <3>7, Freed_Shut DEF SeatInv
  <2> QED BY <2>3, <2>4
<1>2. CASE HearPamAlone \/ HearPamAcceptedLost \/ HearPamRejected \/ HearFailure
  <2>1. /\ state = "greeter" /\ state' = "greeter" /\ checking' = None /\ UNCHANGED due
        /\ AbandonPerson \/ (Heard /\ UNCHANGED abandoned)
    BY <1>2 DEF HearPamAlone, HearPamAcceptedLost, HearPamRejected, HearFailure, Reject, At
  <2>2. ScreenInv'
    BY <1>0, <2>1 DEF SeatInv, ScreenInv
  <2> QED BY <1>0, <2>1, <2>2, Seat_Idle
<1>3. CASE HearPamAccepted
  <2>1. /\ At(Steps) /\ Accept /\ UNCHANGED <<greeter, due, abandoned>>
        /\ ~Gone /\ Heard /\ person.said = "accepted" /\ At({"pam again"})
    BY <1>3 DEF HearPamAccepted, At, Steps
  <2>2. /\ person' # None /\ person'.account = person.account /\ person'.said = None
        /\ person'.stage = person.stage /\ person'.open = person.open
    BY <1>0, <2>1, Heard_Is
  <2>3. /\ person.account = checking.account /\ person.stage = "accepted" /\ ~person.open
    BY <1>0, <2>1 DEF SeatInv, PersonInv, CheckInv, At, Gone
  <2> QED BY <2>1, <2>2, <2>3, Seat_Accepted
<1>4. CASE HearStarted
  <2>1. /\ state = "opening" /\ state' = "session" /\ Heard /\ ~Gone
        /\ person.said = "started"
        /\ UNCHANGED <<account, checking, due, abandoned>>
    BY <1>4 DEF HearStarted
  <2>2. /\ person' # None /\ person'.account = person.account /\ person'.said = None
        /\ person'.stage = person.stage /\ person'.open = person.open
    BY <1>0, <2>1, Heard_Is
  <2>3. person'.said \notin {"accepted", "started"}
    BY <2>2 DEF Said
  <2>4. ScreenInv' /\ AbandonedStayShut' /\ CheckInv'
    BY <1>0, <2>1 DEF SeatInv, ScreenInv, AbandonedStayShut, CheckInv, At
  <2>5. PersonInv'
    BY <1>0, <2>1, <2>2, <2>3 DEF SeatInv, PersonInv, OnSeat
  <2> QED BY <2>4, <2>5 DEF SeatInv
<1>5. CASE SessionOver \/ WorkerLost
  <2>1. /\ state # "greeter" /\ state' = "greeter" /\ Heard /\ Gone
        /\ UNCHANGED <<checking, abandoned>>
        /\ \/ state = "handing over" /\ due' = due
           \/ state \in {"opening", "session"} /\ due' = TRUE
    BY <1>5 DEF SessionOver, WorkerLost
  <2>2. person' = None /\ checking' = None
    BY <1>0, <2>1, Heard_Is DEF SeatInv, PersonInv
  <2>3. AbandonedStayShut'
    BY <2>1 DEF SeatInv, AbandonedStayShut
  <2>4. ScreenInv'
    <3>1. CASE state = "handing over"
      <4>1. UNCHANGED <<due, greeter>> /\ state' = "greeter"
        BY <1>0, <2>1, <3>1
      <4> QED BY <3>1, <4>1 DEF SeatInv, ScreenInv
    <3>2. CASE state \in {"opening", "session"}
      BY <1>0, <2>1, <3>2 DEF SeatInv, ScreenInv
    <3> QED BY <2>1, <3>1, <3>2
  <2> QED BY <2>1, <2>2, <2>3, <2>4 DEF SeatInv, PersonInv, CheckInv, At
<1>6. CASE HearNothing
  <2>1. UNCHANGED <<state, account, checking, due, abandoned>> /\ Heard
    BY <1>6 DEF HearNothing
  <2>2. ScreenInv' /\ AbandonedStayShut'
    BY <1>0, <2>1 DEF SeatInv, ScreenInv, AbandonedStayShut
  <2>3. \/ ~Gone /\ state = "opening"
        \/ Gone /\ state = "greeter" /\ (checking = None \/ checking.step = "online after rejected")
    BY <1>6 DEF HearNothing, Free, At
  <2>4. CASE Gone
    BY <1>0, <2>1, <2>2, <2>3, <2>4, Heard_Is DEF SeatInv, PersonInv, CheckInv, At
  <2>5. CASE ~Gone
    <3>1. /\ person' # None /\ person'.account = person.account /\ person'.said = None
          /\ person'.stage = person.stage /\ person'.open = person.open
      BY <1>0, <2>1, <2>5, Heard_Is
    <3>2. person'.said \notin {"accepted", "started"}
      BY <3>1 DEF Said
    <3> QED BY <1>0, <2>1, <2>2, <2>3, <2>5, <3>1, <3>2
            DEF SeatInv, PersonInv, CheckInv, At, OnSeat
  <2> QED BY <2>4, <2>5
<1> QED BY <1>1, <1>2, <1>3, <1>4, <1>5, <1>6 DEF HearPerson

\* What the accounts' service answers.
LEMMA SeatInv_Online == TypeInv /\ SeatInv => \A t \in online : HearOnline(t) => SeatInv'
<1> SUFFICES ASSUME TypeInv, SeatInv, NEW t \in online, HearOnline(t) PROVE SeatInv'
  OBVIOUS
<1>1. UNCHANGED <<greeter, due>>
  BY DEF HearOnline, OnlineStale, OnlineAccepted, OnlineReplaced, OnlineReplacedFails,
     OnlineRefused, Answers
<1>2. ASSUME NEW verdict, OnlineStale(t, verdict) PROVE SeatInv'
  BY <1>1, <1>2 DEF OnlineStale, SeatInv, ScreenInv, PersonInv, CheckInv, AbandonedStayShut, At
<1>3. CASE OnlineAccepted(t)
  <2>1. /\ At(Steps) /\ At({"online after accepted"}) /\ Accept /\ UNCHANGED <<person, abandoned>>
    BY <1>3 DEF OnlineAccepted, Current, At, Steps
  <2>2. /\ person # None /\ person.account = checking.account /\ person.said = None
        /\ person.stage \in {"accepted", "ended"} /\ ~person.open
    BY <2>1 DEF SeatInv, PersonInv, CheckInv, At
  <2> QED BY <1>1, <2>1, <2>2, Seat_Accepted
<1>4. CASE OnlineReplaced(t)
  <2>1. /\ state = "greeter" /\ UNCHANGED state /\ checking # None
        /\ checking' = [checking EXCEPT !.step = "pam again"]
        /\ StartPerson(checking.account, password)
    BY <1>4 DEF OnlineReplaced, Current, At
  <2>2. checking'.account = checking.account /\ checking'.step = "pam again"
    BY <2>1 DEF TypeInv, TypeOK, ManagerTypes, Checkings
  <2>3. checking.account \in Accounts /\ password \in Attempts \cup {None}
    BY <2>1, Checking_Account DEF TypeInv, TypeOK, WorkerTypes
  <2>4. /\ person' # None /\ person'.account = checking.account /\ ~person'.open
        /\ person'.stage = "checking" /\ person'.said = None
    BY <2>1, <2>3, NewWorker_Is
  <2>5. person'.said \notin {"accepted", "started"}
    BY <2>4 DEF Said
  <2>6. PersonInv' /\ CheckInv'
    BY <2>1, <2>2, <2>4, <2>5 DEF PersonInv, CheckInv, At, OnSeat
  <2>7. ScreenInv' /\ AbandonedStayShut'
    BY <1>1, <2>1, Freed_Shut DEF SeatInv, ScreenInv, StartPerson
  <2> QED BY <2>6, <2>7 DEF SeatInv
<1>5. ASSUME NEW verdict, OnlineReplacedFails(t) \/ OnlineRefused(t, verdict) PROVE SeatInv'
  <2>1. /\ state = "greeter" /\ state' = "greeter" /\ checking' = None
        /\ AbandonPerson \/ UNCHANGED <<person, abandoned>>
    BY <1>5 DEF OnlineReplacedFails, OnlineRefused, Current, At, Reject
  <2>2. ScreenInv'
    BY <1>1, <2>1 DEF SeatInv, ScreenInv
  <2> QED BY <2>1, <2>2, Seat_Idle
<1> QED BY <1>2, <1>3, <1>4, <1>5 DEF HearOnline

\* The login screen starts, ends or cannot start.
LEMMA SeatInv_Greeter ==
    TypeInv /\ SeatInv /\ (StartGreeter \/ StartGreeterFails \/ GreeterEnded) => SeatInv'
<1> SUFFICES ASSUME TypeInv, SeatInv, StartGreeter \/ StartGreeterFails \/ GreeterEnded
             PROVE  SeatInv'
  OBVIOUS
<1>1. CASE StartGreeter
  BY <1>1 DEF StartGreeter, SeatInv, ScreenInv, PersonInv, CheckInv, AbandonedStayShut, At
<1>2. CASE StartGreeterFails \/ GreeterEnded
  <2>1. /\ GreeterGone /\ greeter' = "none" /\ due' = (state = "greeter")
        /\ state \in {"greeter", "handing over"}
    BY <1>2 DEF StartGreeterFails, GreeterEnded, SeatInv, ScreenInv, TypeInv, TypeOK, ManagerTypes
  <2>2. CASE state = "greeter"
    <3>1. /\ state' = "greeter" /\ checking' = None
          /\ AbandonPerson \/ UNCHANGED <<person, abandoned>>
      BY <2>1, <2>2 DEF GreeterGone
    <3>2. ScreenInv'
      BY <2>1, <2>2, <3>1 DEF ScreenInv
    <3> QED BY <2>2, <3>1, <3>2, Seat_Idle
  <2>3. CASE state = "handing over"
    <3>1. /\ state' = "opening" /\ person # None /\ person' = [person EXCEPT !.open = TRUE]
          /\ UNCHANGED <<account, checking, abandoned>>
      BY <2>1, <2>3 DEF GreeterGone, SeatInv, PersonInv
    <3>2. /\ person' # None /\ person'.account = person.account /\ person'.open
          /\ person'.stage = person.stage /\ person'.said = person.said
      <4>1. person \in Workers
        BY <3>1, Person_Type DEF TypeInv, TypeOK
      <4>2. person' \in Workers
        BY <3>1, <4>1 DEF Workers
      <4> QED BY <3>1, <4>1, <4>2 DEF Workers
    <3>3. ScreenInv' /\ AbandonedStayShut' /\ CheckInv'
      BY <2>1, <2>3, <3>1 DEF SeatInv, ScreenInv, AbandonedStayShut, CheckInv, At
    <3>4. person'.said \notin {"accepted", "started"} /\ person'.stage # "checking"
      BY <2>3, <3>2 DEF SeatInv, PersonInv, Said
    <3>5. PersonInv'
      BY <2>3, <3>1, <3>2, <3>4 DEF SeatInv, PersonInv, OnSeat
    <3> QED BY <3>3, <3>5 DEF SeatInv
  <2> QED BY <2>1, <2>2, <2>3
<1> QED BY <1>1, <1>2

\* Every step of the login program keeps the seat invariant.
LEMMA SeatInv_Next == TypeInv /\ SeatInv /\ [Next]_vars => SeatInv'
<1> SUFFICES ASSUME TypeInv, SeatInv, [Next]_vars PROVE SeatInv'
  OBVIOUS
<1>1. CASE \/ AcceptConnection \/ HearClosed \/ Tick \/ (\E n \in Names : WaitOver(n))
           \/ (\E w \in abandoned : Reap(w)) \/ UNCHANGED vars
  <2>1. /\ UNCHANGED <<state, account, checking, person, due>> /\ abandoned' \subseteq abandoned
        /\ (greeter' = "none") <=> (greeter = "none")
    BY <1>1 DEF AcceptConnection, HearClosed, Tick, WaitOver, Reap, vars
  <2> QED BY <2>1 DEF SeatInv, ScreenInv, PersonInv, CheckInv, AbandonedStayShut, At
<1> QED BY <1>1, SeatInv_Person, SeatInv_Screen, SeatInv_Attempt, SeatInv_Hear, SeatInv_Online,
        SeatInv_Greeter DEF Next

\* The invariant, for every behaviour of the login program.
LEMMA Login_SeatInv == Spec => []SeatInv
BY TypeInv_Init, TypeInv_Next, SeatInv_Init, SeatInv_Next, PTL DEF Spec

\* The login screen and a person's session never share the seat (Manager's states
\* and Login::act), for any number of accounts, attempts and connections.
THEOREM Login_SeatExclusive == Spec => []SeatExclusive
<1>1. SeatInv => SeatExclusive
  BY DEF SeatInv, ScreenInv, PersonInv, SeatExclusive
<1> QED BY <1>1, Login_SeatInv, PTL

\* Someone signed in has a worker of their own until it has been reaped
\* (Manager::accept, greeter_ended, worker_ended).
THEOREM Login_WorkerForSession == Spec => []WorkerForSession
<1>1. SeatInv => WorkerForSession
  BY DEF SeatInv, ScreenInv, PersonInv, WorkerForSession
<1> QED BY <1>1, Login_SeatInv, PTL

\* No worker let go (Action::AbandonCheck, or replaced by Action::Check) was told to
\* open a session.
THEOREM Login_AbandonedStayShut == Spec => []AbandonedStayShut
<1>1. SeatInv => AbandonedStayShut
  BY DEF SeatInv
<1> QED BY <1>1, Login_SeatInv, PTL

-----------------------------------------------------------------------------
(* Passwords, and the sessions they earn, while the accounts' service says   *)
(* who is enrolled.                                                          *)

\* Attempt n was made, and for account a.
Typed(n, a) == n \in 1..Len(tried) /\ tried[n] = a

\* A password is kept exactly while its account is checked, and its throttle lets it.
PasswordInv ==
    /\ (password = None) = (checking = None)
    /\ checking # None => /\ state = "greeter" /\ Typed(password, checking.account)
                          /\ ~waiting[checking.account]

\* What the worker's attempt was accepted by, at each step of its check and after it.
AttemptInv ==
    person # None =>
        /\ Typed(person.attempt, person.account)
        /\ person.said = "accepted" \/ person.stage \in {"accepted", "opening", "running"} =>
               person.attempt \in pamAccepted
        /\ state # "greeter" => person.attempt \in pamAccepted \cap letIn
        /\ At({"pam", "pam again", "online after accepted"}) => person.attempt = password
        /\ At({"online after accepted"}) => person.attempt \in pamAccepted
        /\ At({"pam again"}) => person.attempt \in letIn

\* No two threads ask for one check, so an answer that is taken is the password's.
ThreadInv ==
    /\ checking # None => checking.check <= checks
    /\ \A t \in online : /\ t.check <= checks
                         /\ Current(t) => t.attempt = password

EarnInv == PasswordInv /\ AttemptInv /\ ThreadInv

\* At the start nothing was typed.
LEMMA EarnInv_Init == Init => EarnInv
BY DEF Init, EarnInv, PasswordInv, AttemptInv, ThreadInv

\* What was typed stays typed when more is.
LEMMA Typed_Kept ==
    ASSUME TypeInv, UNCHANGED tried \/ (\E a \in Accounts : GreeterAttempts(a)),
           NEW n, NEW a, Typed(n, a)
    PROVE  Typed(n, a)'
<1>1. tried \in Seq(Accounts)
  BY DEF TypeInv, TypeOK, MailTypes
<1>2. CASE UNCHANGED tried
  BY <1>2 DEF Typed
<1>3. ASSUME NEW b \in Accounts, GreeterAttempts(b) PROVE Typed(n, a)'
  <2>1. tried' = Append(tried, b)
    BY <1>3 DEF GreeterAttempts
  <2> QED BY <1>1, <2>1 DEF Typed
<1> QED BY <1>2, <1>3

\* Steps that leave the check, the worker and the threads alone.
LEMMA Earn_Kept ==
    ASSUME TypeInv, EarnInv,
           UNCHANGED <<state, checking, checks, person, password, online, pamAccepted, letIn>>,
           UNCHANGED tried \/ (\E a \in Accounts : GreeterAttempts(a)),
           \A a \in Accounts : waiting'[a] => waiting[a]
    PROVE  EarnInv'
<1>1. PasswordInv'
  <2>1. checking # None => checking.account \in Accounts
    BY Checking_Account DEF TypeInv, TypeOK
  <2> QED BY <2>1, Typed_Kept DEF EarnInv, PasswordInv
<1>2. AttemptInv'
  BY Typed_Kept DEF EarnInv, AttemptInv, At
<1>3. ThreadInv'
  BY DEF EarnInv, ThreadInv, Current, At
<1> QED BY <1>1, <1>2, <1>3 DEF EarnInv

\* A worker heard and not reaped has its attempt still.
LEMMA Heard_Attempt ==
    ASSUME TypeInv, person # None, Heard, ~Gone
    PROVE  person'.attempt = person.attempt
<1>1. person \in Workers
  BY Person_Type DEF TypeInv, TypeOK
<1> QED BY <1>1 DEF Heard, Workers

\* A check is over, or was given up, and nobody is signed in.
LEMMA Earn_Idle ==
    ASSUME TypeInv, EarnInv, state = "greeter", state' = "greeter",
           checking' = None, password' = None,
           \/ AbandonPerson
           \/ Heard /\ person # None
           \/ UNCHANGED person,
           UNCHANGED <<tried, pamAccepted>>,
           \A t \in online' : t.check <= checks'
    PROVE  EarnInv'
<1>1. PasswordInv'
  BY DEF PasswordInv
<1>2. ThreadInv'
  BY DEF ThreadInv, Current, At
<1>3. ~At(Steps)'
  BY DEF At
<1>4. AttemptInv'
  <2>1. person' # None => /\ person # None /\ person'.attempt = person.attempt
                          /\ person'.account = person.account /\ person'.stage = person.stage
                          /\ person'.said \in {person.said, None}
    BY Heard_Is, Heard_Attempt DEF AbandonPerson
  <2>2. person' # None /\ person'.said = "accepted" => person.said = "accepted"
    BY <2>1 DEF Said
  <2> QED BY <1>3, <2>1, <2>2, Typed_Kept DEF EarnInv, AttemptInv, At
<1> QED BY <1>1, <1>2, <1>4 DEF EarnInv

\* A password is accepted: its worker's attempt is one both accepted.
LEMMA Earn_Accepted ==
    ASSUME TypeInv, EarnInv, Accept, UNCHANGED <<tried, pamAccepted>>, UNCHANGED checks,
           person # None, person' # None, person'.attempt = person.attempt,
           person'.account = person.account,
           person'.attempt \in pamAccepted \cap letIn', online' \subseteq online
    PROVE  EarnInv'
<1>1. checking' = None /\ password' = None
  BY DEF Accept
<1>2. PasswordInv' /\ ThreadInv'
  BY <1>1 DEF EarnInv, PasswordInv, ThreadInv, Current, At
<1>3. Typed(person.attempt, person.account)'
  BY Typed_Kept DEF EarnInv, AttemptInv
<1>4. AttemptInv'
  BY <1>1, <1>3 DEF AttemptInv, At, Typed
<1> QED BY <1>2, <1>4 DEF EarnInv

\* Steps of the worker: PAM accepts the attempt it was started for.
LEMMA EarnInv_Person == TypeInv /\ SeatInv /\ EarnInv /\ PersonActs => EarnInv'
<1> SUFFICES ASSUME TypeInv, SeatInv, EarnInv, PersonActs PROVE EarnInv'
  OBVIOUS
<1>1. /\ UNCHANGED <<state, checking, checks, password, online, waiting, tried, letIn>>
      /\ pamAccepted \subseteq pamAccepted'
  BY DEF PersonActs, PersonAnswers, PersonOpens, PersonStarts, PersonFails, PersonExits, Becomes
<1>2. person \in Workers /\ person # None
  BY Person_Type DEF TypeInv, TypeOK, PersonActs, PersonAnswers, PersonOpens, PersonStarts,
     PersonFails, PersonExits
<1>3. person'.attempt = person.attempt /\ person'.account = person.account
  <2>1. person'.attempt = person.attempt
    BY <1>2 DEF PersonActs, PersonAnswers, PersonOpens, PersonStarts, PersonFails, PersonExits,
       Becomes, Workers
  <2> QED BY <1>2, <2>1, Person_Step
<1>4. person'.said = "accepted" \/ person'.stage \in {"accepted", "opening", "running"} =>
          person'.attempt \in pamAccepted'
  <2>1. ASSUME NEW said \in {"accepted", "rejected", "failed"}, PersonAnswers(said),
               person'.said = "accepted" \/ person'.stage \in {"accepted", "opening", "running"}
        PROVE  person'.attempt \in pamAccepted'
    <3>1. said = "accepted"
      BY <1>2, <2>1 DEF PersonAnswers, Becomes, Workers
    <3> QED BY <1>3, <2>1, <3>1 DEF PersonAnswers
  <2>2. CASE PersonOpens \/ PersonStarts \/ PersonFails \/ PersonExits
    <3>1. \/ person.said = "accepted" \/ person.stage \in {"accepted", "opening", "running"}
          \/ /\ person'.said # "accepted"
             /\ person'.stage \notin {"accepted", "opening", "running"}
      BY <1>2, <2>2 DEF PersonOpens, PersonStarts, PersonFails, PersonExits, Becomes, Workers
    <3> QED BY <1>1, <1>2, <1>3, <3>1 DEF EarnInv, AttemptInv
  <2> QED BY <2>1, <2>2 DEF PersonActs
<1>5. AttemptInv'
  BY <1>1, <1>2, <1>3, <1>4, Typed_Kept DEF EarnInv, AttemptInv, At
<1>6. PasswordInv' /\ ThreadInv'
  BY <1>1, Typed_Kept DEF EarnInv, PasswordInv, ThreadInv, Current, At
<1> QED BY <1>5, <1>6 DEF EarnInv

\* What the login screen sends: a check begins with the password it brought.
LEMMA EarnInv_Attempt ==
    ASSUME ListFails = FALSE
    PROVE  TypeInv /\ SeatInv /\ EarnInv => \A n \in Attempts : HearAttempt(n) => EarnInv'
<1> SUFFICES ASSUME TypeInv, SeatInv, EarnInv, NEW n \in Attempts, HearAttempt(n) PROVE EarnInv'
  OBVIOUS
<1>1. Hears(n)
  BY DEF HearAttempt, AttemptUnlisted, AttemptBusy, AttemptThrottled, AttemptNotEnrolled,
     AttemptChecked, AttemptFails
<1>2. /\ UNCHANGED <<state, checks, online, tried, pamAccepted, letIn>>
      /\ n \in 1..Len(tried) /\ tried[n] \in Accounts
  <2>1. UNCHANGED <<state, checks, online, tried, pamAccepted, letIn>>
    BY <1>1 DEF HearAttempt, AttemptUnlisted, AttemptBusy, AttemptThrottled, AttemptNotEnrolled,
       AttemptChecked, AttemptFails, Hears
  <2>2. n <= Len(tried) /\ n \in Nat /\ n # 0
    BY <1>1 DEF Hears, Attempts, TypeInv, MailSent
  <2> QED BY <1>1, <2>1, <2>2, Hears_Account DEF TypeInv, TypeOK, MailTypes
<1>3. \A t \in online' : t.check <= checks'
  BY <1>2 DEF EarnInv, ThreadInv
<1>4. CASE AttemptChecked(n)
  <2>1. /\ state = "greeter"
        /\ checking' = [account |-> tried[n], step |-> "pam", check |-> checks]
        /\ password' = n /\ StartPerson(tried[n], n) /\ UNCHANGED waiting /\ ~waiting[tried[n]]
    BY <1>4 DEF AttemptChecked, Free
  <2>2. checking' # None /\ password' # None
    <3>1. checking' \in Checkings
      BY <1>2, <2>1, Counters_Type DEF TypeInv, Checkings, Steps
    <3> QED BY <2>1, <3>1 DEF Attempts
  <2>3. PasswordInv'
    BY <1>2, <2>1, <2>2 DEF PasswordInv, Typed
  <2>4. /\ person' # None /\ person'.account = tried[n] /\ person'.stage = "checking"
        /\ person'.said = None /\ person'.attempt = n
    BY <1>2, <2>1, NewWorker_Is DEF StartPerson, NewWorker
  <2>5. person'.said # "accepted"
    BY <2>4 DEF Said
  <2>6. AttemptInv'
    BY <1>2, <2>1, <2>4, <2>5 DEF AttemptInv, At, Typed
  <2>7. ThreadInv'
    <3>1. checks' \in Nat /\ checking'.check = checks'
      BY <1>2, <2>1, Counters_Type DEF TypeInv
    <3> QED BY <1>3, <2>1, <3>1 DEF ThreadInv, Current, At
  <2> QED BY <2>3, <2>6, <2>7 DEF EarnInv
<1>5. CASE AttemptFails(n) \/ AttemptNotEnrolled(n)
  <2>1. /\ state = "greeter" /\ checking' = None /\ password' = None
        /\ AbandonPerson \/ UNCHANGED person
    BY <1>5 DEF AttemptFails, AttemptNotEnrolled, Free
  <2> QED BY <1>2, <1>3, <2>1, Earn_Idle
<1>6. CASE AttemptBusy(n) \/ \E name \in Names : AttemptThrottled(n, name)
  <2>1. UNCHANGED <<checking, person, password, waiting>>
    BY <1>6 DEF AttemptBusy, AttemptThrottled
  <2> QED BY <1>2, <2>1, Earn_Kept
<1> QED BY <1>4, <1>5, <1>6 DEF HearAttempt, AttemptUnlisted

\* What the person's worker says, and its exit.
LEMMA EarnInv_Hear == TypeInv /\ SeatInv /\ EarnInv /\ HearPerson => EarnInv'
<1> SUFFICES ASSUME TypeInv, SeatInv, EarnInv, HearPerson PROVE EarnInv'
  OBVIOUS
<1>0. person # None /\ UNCHANGED <<tried, pamAccepted, letIn>>
  BY DEF HearPerson, HearPam, HearPamAlone, HearPamAccepted, HearPamAcceptedLost,
     HearPamRejected, HearFailure, HearStarted, SessionOver, WorkerLost, HearNothing
<1>1. checks \in Nat /\ checks + 1 \in Nat /\ \A t \in online : t.check \in Nat /\ t.check <= checks
  <2>1. \A t \in online : t.check \in Nat
    BY DEF TypeInv, TypeOK, WorkerTypes, Threads
  <2> QED BY <2>1, Counters_Type DEF TypeInv, EarnInv, ThreadInv
<1>2. CASE HearPam
  <2> DEFINE t0 == [check |-> checks + 1, attempt |-> password, local |-> person.said]
  <2>1. /\ state = "greeter" /\ checking # None /\ At({"pam"}) /\ Heard
        /\ checks' = checks + 1 /\ online' = online \cup {t0}
        /\ state' = "greeter"
        /\ person.said \in {"accepted", "rejected"}
    BY <1>2 DEF HearPam, Reject, At
  <2>2. \A t \in online' : t.check <= checks'
    BY <1>1, <2>1
  <2>3. CASE Gone /\ person.said = "accepted"
    <3>1. checking' = None /\ password' = None
      BY <1>2, <2>3 DEF HearPam, Reject
    <3> QED BY <1>0, <2>1, <2>2, <3>1, Earn_Idle
  <2>4. CASE ~(Gone /\ person.said = "accepted")
    <3>1. /\ UNCHANGED <<password, waiting>>
          /\ checking \in Checkings
          /\ checking' = [checking EXCEPT !.check = checks + 1,
                                          !.step = IF person.said = "accepted"
                                                   THEN "online after accepted"
                                                   ELSE "online after rejected"]
      BY <1>2, <2>1, <2>4 DEF HearPam, TypeInv, TypeOK, ManagerTypes
    <3>2. checking' \in Checkings /\ checking'.account = checking.account
          /\ checking'.check = checks'
          /\ checking'.step = IF person.said = "accepted" THEN "online after accepted"
                              ELSE "online after rejected"
      BY <1>1, <2>1, <3>1 DEF Checkings, Steps
    <3>3. checking' # None
      BY <3>2
    <3>4. PasswordInv'
      BY <1>0, <2>1, <3>1, <3>2, <3>3, Typed_Kept DEF EarnInv, PasswordInv
    <3>5. ThreadInv'
      <4>1. checking'.check <= checks'
        <5>1. checking'.check = checks'
          BY <3>2
        <5>2. checks' \in Nat
          BY <1>1, <2>1
        <5>3. \A m \in Nat : m <= m
          OBVIOUS
        <5> QED BY <5>1, <5>2, <5>3
      <4>2. \A t \in online' : t.check = checks' => t.attempt = password'
        <5>1. \A t \in online : t.check # checks'
          BY <1>1, <2>1
        <5> QED BY <2>1, <3>1, <5>1
      <4> QED BY <2>2, <3>2, <4>1, <4>2 DEF ThreadInv, Current
    <3>6. AttemptInv'
      <4>1. person.attempt = password /\ Typed(person.attempt, person.account)
            /\ (person.said = "accepted" => person.attempt \in pamAccepted)
            /\ (person.stage \in {"accepted", "opening", "running"} =>
                    person.attempt \in pamAccepted)
        BY <1>0, <2>1 DEF EarnInv, AttemptInv, At
      <4>2. person' # None => /\ person'.said = None /\ person'.account = person.account
                              /\ person'.stage = person.stage /\ person'.attempt = person.attempt
        BY <1>0, <2>1, Heard_Is, Heard_Attempt
      <4>3. person' # None => person'.said # "accepted"
        BY <4>2 DEF Said
      <4> QED BY <1>0, <2>1, <3>1, <3>2, <4>1, <4>2, <4>3, Typed_Kept DEF AttemptInv, At
    <3> QED BY <3>4, <3>5, <3>6 DEF EarnInv
  <2> QED BY <2>3, <2>4
<1>3. CASE HearPamAlone \/ HearPamAcceptedLost \/ HearPamRejected \/ HearFailure
  <2>1. /\ state = "greeter" /\ state' = "greeter" /\ checking' = None /\ password' = None
        /\ AbandonPerson \/ Heard
    BY <1>3 DEF HearPamAlone, HearPamAcceptedLost, HearPamRejected, HearFailure, Reject, At
  <2>2. online' = online /\ checks' \in {checks, checks + 1}
    BY <1>3 DEF HearPamAlone, HearPamAcceptedLost, HearPamRejected, HearFailure
  <2>3. \A t \in online' : t.check <= checks'
    BY <1>1, <2>2
  <2> QED BY <1>0, <2>1, <2>3, Earn_Idle
<1>4. CASE HearPamAccepted
  <2>1. /\ Accept /\ ~Gone /\ Heard /\ person.said = "accepted" /\ At({"pam again"})
        /\ UNCHANGED <<checks, online>>
    BY <1>4 DEF HearPamAccepted
  <2>2. /\ person' # None /\ person'.account = person.account
        /\ person'.attempt = person.attempt
    BY <1>0, <2>1, Heard_Is, Heard_Attempt
  <2>3. person.attempt \in pamAccepted \cap letIn
    BY <1>0, <2>1 DEF EarnInv, AttemptInv
  <2> QED BY <1>0, <2>1, <2>2, <2>3, Earn_Accepted
<1>5. CASE HearStarted \/ SessionOver \/ WorkerLost \/ HearNothing
  <2>1. /\ UNCHANGED <<checking, checks, password, online, waiting>> /\ Heard
        /\ \/ state' = state
           \/ state # "greeter"
    BY <1>5 DEF HearStarted, SessionOver, WorkerLost, HearNothing
  <2>2. PasswordInv' /\ ThreadInv'
    <3>1. state # "greeter" => checking = None
      BY DEF SeatInv, PersonInv
    <3>2. checking # None => state' = state
      BY <2>1, <3>1
    <3>3. PasswordInv'
      BY <1>0, <2>1, <3>2, Typed_Kept DEF EarnInv, PasswordInv
    <3>4. ThreadInv'
      BY <2>1, <3>2 DEF EarnInv, ThreadInv, Current, At
    <3> QED BY <3>3, <3>4
  <2>3. AttemptInv'
    <3>1. person' # None => /\ person'.said = None /\ person'.account = person.account
                            /\ person'.stage = person.stage /\ person'.attempt = person.attempt
      BY <1>0, <2>1, Heard_Is, Heard_Attempt
    <3>2. person' # None => person'.said # "accepted"
      BY <3>1 DEF Said
    <3>3. state' # "greeter" => state # "greeter"
      BY <2>1
    <3>4. checking # None => state' = state
      BY <2>1 DEF SeatInv, PersonInv
    <3> QED BY <1>0, <2>1, <3>1, <3>2, <3>3, <3>4, Typed_Kept DEF EarnInv, AttemptInv, At
  <2> QED BY <2>2, <2>3 DEF EarnInv
<1> QED BY <1>2, <1>3, <1>4, <1>5 DEF HearPerson

\* What the accounts' service answers, to the check there is and to those given up.
LEMMA EarnInv_Online ==
    TypeInv /\ SeatInv /\ EarnInv => \A t \in online : HearOnline(t) => EarnInv'
<1> SUFFICES ASSUME TypeInv, SeatInv, EarnInv, NEW t \in online, HearOnline(t) PROVE EarnInv'
  OBVIOUS
<1>1. /\ online' \subseteq online /\ letIn \subseteq letIn'
      /\ UNCHANGED <<checks, tried, pamAccepted>>
  BY DEF HearOnline, OnlineStale, OnlineAccepted, OnlineReplaced, OnlineReplacedFails,
     OnlineRefused, Answers
<1>2. \A u \in online' : u.check <= checks'
  BY <1>1 DEF EarnInv, ThreadInv
<1>3. ASSUME NEW verdict, OnlineStale(t, verdict) PROVE EarnInv'
  <2>1. UNCHANGED <<state, checking, person, password, waiting>>
    BY <1>3 DEF OnlineStale
  <2>2. PasswordInv' /\ ThreadInv'
    BY <1>1, <2>1, Typed_Kept DEF EarnInv, PasswordInv, ThreadInv, Current, At
  <2>3. AttemptInv'
    BY <1>1, <2>1, Typed_Kept DEF EarnInv, AttemptInv, At
  <2> QED BY <2>2, <2>3 DEF EarnInv
<1>4. CASE OnlineAccepted(t)
  <2>1. /\ Current(t) /\ At({"online after accepted"}) /\ Accept /\ UNCHANGED person
        /\ letIn' = letIn \cup {t.attempt}
    BY <1>4 DEF OnlineAccepted, Answers, Current, At
  <2>2. person # None /\ person.attempt = password /\ person.attempt \in pamAccepted
    BY <2>1 DEF SeatInv, CheckInv, EarnInv, AttemptInv, At
  <2>3. t.attempt = password
    BY <2>1 DEF EarnInv, ThreadInv
  <2> QED BY <1>1, <2>1, <2>2, <2>3, Earn_Accepted
<1>5. CASE OnlineReplaced(t)
  <2>1. /\ Current(t) /\ state = "greeter" /\ UNCHANGED <<state, password, waiting>>
        /\ checking # None /\ checking \in Checkings
        /\ checking' = [checking EXCEPT !.step = "pam again"]
        /\ StartPerson(checking.account, password)
        /\ letIn' = letIn \cup {t.attempt}
    BY <1>5 DEF OnlineReplaced, Answers, Current, At, TypeInv, TypeOK, ManagerTypes
  <2>2. /\ checking'.account = checking.account /\ checking'.step = "pam again"
        /\ checking'.check = checking.check /\ checking' \in Checkings
    BY <2>1 DEF Checkings, Steps
  <2>3. checking.account \in Accounts /\ password \in Attempts \cup {None}
    BY <2>1, Checking_Account DEF TypeInv, TypeOK, WorkerTypes
  <2>4. /\ person' # None /\ person'.account = checking.account
        /\ person'.stage = "checking" /\ person'.said = None
        /\ person'.attempt = password
    BY <2>1, <2>3, NewWorker_Is DEF StartPerson, NewWorker
  <2>5. person'.said # "accepted"
    BY <2>4 DEF Said
  <2>6. t.attempt = password /\ Typed(password, checking.account)
    BY <2>1 DEF EarnInv, ThreadInv, PasswordInv
  <2>7. checking' # None
    BY <2>2
  <2>8. PasswordInv'
    BY <1>1, <2>1, <2>2, <2>6, <2>7, Typed_Kept DEF EarnInv, PasswordInv
  <2>9. AttemptInv'
    BY <1>1, <2>1, <2>2, <2>4, <2>5, <2>6, Typed_Kept DEF AttemptInv, At
  <2>10. ThreadInv'
    BY <1>1, <2>1, <2>2 DEF EarnInv, ThreadInv, Current, At
  <2> QED BY <2>8, <2>9, <2>10 DEF EarnInv
<1>6. ASSUME NEW verdict, OnlineReplacedFails(t) \/ OnlineRefused(t, verdict) PROVE EarnInv'
  <2>1. /\ state = "greeter" /\ state' = "greeter" /\ checking' = None /\ password' = None
        /\ AbandonPerson \/ UNCHANGED person
    BY <1>6 DEF OnlineReplacedFails, OnlineRefused, Current, At, Reject
  <2> QED BY <1>1, <1>2, <2>1, Earn_Idle
<1> QED BY <1>3, <1>4, <1>5, <1>6 DEF HearOnline

\* The login screen ends or cannot start: its check is given up, or the session of
\* whoever was let in is opened.
LEMMA EarnInv_Greeter ==
    TypeInv /\ SeatInv /\ EarnInv /\ (StartGreeterFails \/ GreeterEnded) => EarnInv'
<1> SUFFICES ASSUME TypeInv, SeatInv, EarnInv, StartGreeterFails \/ GreeterEnded PROVE EarnInv'
  OBVIOUS
<1>1. /\ GreeterGone /\ UNCHANGED <<checks, waiting, online, tried, pamAccepted, letIn>>
      /\ state \in {"greeter", "handing over"}
  BY DEF StartGreeterFails, GreeterEnded, GreeterGone, SeatInv, ScreenInv, TypeInv, TypeOK,
     ManagerTypes
<1>2. CASE state = "greeter"
  <2>1. /\ state' = "greeter" /\ checking' = None /\ password' = None
        /\ AbandonPerson \/ UNCHANGED person
    BY <1>1, <1>2 DEF GreeterGone, EarnInv, PasswordInv
  <2> QED BY <1>1, <1>2, <2>1, Earn_Idle DEF EarnInv, ThreadInv
<1>3. CASE state = "handing over"
  <2>1. /\ state' = "opening" /\ person # None /\ person' = [person EXCEPT !.open = TRUE]
        /\ UNCHANGED <<checking, password>> /\ checking = None
    BY <1>1, <1>3 DEF GreeterGone, SeatInv, PersonInv
  <2>2. /\ person' # None /\ person'.account = person.account /\ person'.said = person.said
        /\ person'.stage = person.stage /\ person'.attempt = person.attempt
    <3>1. person \in Workers
      BY <2>1, Person_Type DEF TypeInv, TypeOK
    <3>2. person' \in Workers
      BY <2>1, <3>1 DEF Workers
    <3> QED BY <2>1, <3>1, <3>2 DEF Workers
  <2>3. PasswordInv' /\ ThreadInv'
    BY <1>1, <2>1 DEF EarnInv, PasswordInv, ThreadInv, Current, At
  <2>4. AttemptInv'
    <3>1. /\ Typed(person.attempt, person.account)
          /\ person.attempt \in pamAccepted \cap letIn
      BY <1>3, <2>1 DEF EarnInv, AttemptInv
    <3>2. checking' = None /\ UNCHANGED <<tried, pamAccepted, letIn>>
      BY <1>1, <2>1
    <3> QED BY <2>2, <3>1, <3>2 DEF AttemptInv, At, Typed
  <2> QED BY <2>3, <2>4 DEF EarnInv
<1> QED BY <1>1, <1>2, <1>3

\* Every step of the login program keeps what sessions are earned by.
LEMMA EarnInv_Next ==
    ASSUME ListFails = FALSE
    PROVE  TypeInv /\ SeatInv /\ EarnInv /\ [Next]_vars => EarnInv'
<1> SUFFICES ASSUME TypeInv, SeatInv, EarnInv, [Next]_vars PROVE EarnInv'
  OBVIOUS
<1>1. CASE \/ StartGreeter \/ AcceptConnection \/ HearClosed \/ Tick
           \/ (\E n \in Names : WaitOver(n)) \/ (\E w \in abandoned : Reap(w))
           \/ ScreenActs \/ UNCHANGED vars
  <2>1. /\ UNCHANGED <<state, checking, checks, person, password, online, pamAccepted, letIn>>
        /\ UNCHANGED tried \/ (\E a \in Accounts : GreeterAttempts(a))
    BY <1>1 DEF StartGreeter, AcceptConnection, HearClosed, Tick, WaitOver, Reap, ScreenActs,
       GreeterConnects, GreeterReads, GreeterExits, GreeterAttempts, vars
  <2>2. \A a \in Accounts : waiting'[a] => waiting[a]
    <3>1. CASE \E n \in Names : WaitOver(n)
      BY <3>1 DEF WaitOver, TypeInv, TypeOK, ThrottleTypes, Names
    <3>2. CASE UNCHANGED waiting
      BY <3>2
    <3> QED BY <1>1, <3>1, <3>2 DEF StartGreeter, AcceptConnection, HearClosed, Tick, Reap,
            ScreenActs, GreeterConnects, GreeterReads, GreeterExits, GreeterAttempts, vars
  <2> QED BY <2>1, <2>2, Earn_Kept
<1> QED BY <1>1, EarnInv_Person, EarnInv_Attempt, EarnInv_Hear, EarnInv_Online, EarnInv_Greeter
        DEF Next

\* While the accounts' service says who is enrolled: a session is opened only with a
\* password that PAM and the service both accepted, of its own account; a password is
\* kept exactly while it is checked; and none is checked whose throttle waits.
THEOREM Login_SessionsEarned ==
    ASSUME ListFails = FALSE
    PROVE  Spec => []SessionsEarned
<1>1. SeatInv /\ EarnInv => SessionsEarned
  <2> SUFFICES ASSUME SeatInv, EarnInv PROVE SessionsEarned
    OBVIOUS
  <2>1. SessionEarned
    BY DEF SeatInv, PersonInv, EarnInv, AttemptInv, SessionEarned, Typed
  <2>2. PasswordKept
    BY DEF EarnInv, PasswordInv, PasswordKept, Typed
  <2>3. ThrottleHolds
    BY DEF EarnInv, PasswordInv, ThrottleHolds
  <2> QED BY <2>1, <2>2, <2>3 DEF SeatInv, SessionsEarned
<1>2. TypeInv /\ SeatInv /\ EarnInv /\ [Next]_vars => EarnInv'
  BY EarnInv_Next
<1> QED
  BY <1>1, <1>2, TypeInv_Init, TypeInv_Next, SeatInv_Init, SeatInv_Next, EarnInv_Init, PTL
  DEF Spec

-----------------------------------------------------------------------------
(* What the seat is promised: the login program implements SeatHandover.     *)

\* At the start nobody has the seat and nobody is let in.
LEMMA Promise_Init == Init => Seat!Init
BY DEF Init, Seat!Init, SeatOwner, SeatLetIn

\* Nothing of what SeatHandover sees changed.
SeatStutters == SeatOwner' = SeatOwner /\ SeatLetIn' = SeatLetIn

\* Where the worker is not on the seat and nobody is let in.
LEMMA Promise_Idle ==
    ASSUME SeatInv, state = "greeter", state' = "greeter", SeatInv', greeter' = greeter
    PROVE  SeatStutters
BY DEF SeatInv, PersonInv, SeatStutters, SeatOwner, SeatLetIn

\* A session opens on the seat it was let in to, or leaves it.
LEMMA Promise_Person ==
    TypeInv /\ SeatInv /\ PersonActs => SeatStutters \/ Seat!Next
<1> SUFFICES ASSUME TypeInv, SeatInv, PersonActs PROVE SeatStutters \/ Seat!Next
  OBVIOUS
<1>1. /\ UNCHANGED <<state, account, greeter>> /\ person \in Workers /\ person # None
      /\ person' \in Workers /\ person' # None /\ person'.account = person.account
  <2>1. person \in Workers /\ person # None
    BY Person_Type DEF TypeInv, TypeOK, PersonActs, PersonAnswers, PersonOpens, PersonStarts,
       PersonFails, PersonExits
  <2>2. person' \in Workers /\ person' # None
    BY PersonActs_Type DEF TypeInv, TypeOK
  <2>3. UNCHANGED <<state, account, greeter>>
    BY DEF PersonActs, PersonAnswers, PersonOpens, PersonStarts, PersonFails, PersonExits, Becomes
  <2> QED BY <2>1, <2>2, <2>3, Person_Step
<1>2. person.account \in Accounts /\ account \in Accounts \cup {None}
  BY <1>1 DEF Workers, TypeInv, TypeOK, ManagerTypes
<1>3. CASE \E said \in {"accepted", "rejected", "failed"} : PersonAnswers(said)
  <2>1. person.stage = "checking" /\ person'.stage \in {"accepted", "leaving"}
    BY <1>1, <1>3 DEF PersonAnswers, Becomes, Workers
  <2>2. state = "greeter"
    BY <1>1, <2>1 DEF SeatInv, PersonInv, TypeInv, TypeOK, ManagerTypes
  <2> QED BY <1>1, <2>1, <2>2 DEF SeatStutters, SeatOwner, SeatLetIn, OnSeat
<1>4. CASE PersonOpens
  <2>1. person.stage = "accepted" /\ person.open /\ person'.stage = "opening"
    BY <1>1, <1>4 DEF PersonOpens, Becomes, Workers
  <2>2. state = "opening" /\ account = person.account /\ greeter = "none"
    BY <1>1, <2>1 DEF SeatInv, PersonInv, ScreenInv
  <2>3. /\ SeatOwner = None /\ SeatLetIn = person.account
        /\ SeatOwner' = person.account /\ SeatLetIn' = None
    BY <1>1, <2>1, <2>2 DEF SeatOwner, SeatLetIn, OnSeat
  <2> QED BY <1>2, <2>3 DEF Seat!Next, Seat!SessionOpens
<1>5. CASE PersonStarts
  <2>1. person.stage = "opening" /\ person'.stage = "running"
    BY <1>1, <1>5 DEF PersonStarts, Becomes, Workers
  <2> QED BY <1>1, <2>1 DEF SeatStutters, SeatOwner, SeatLetIn, OnSeat
<1>6. CASE PersonFails \/ PersonExits
  <2>1. person'.stage \in {"leaving", "ended"}
    BY <1>1, <1>6 DEF PersonFails, PersonExits, Becomes, Workers
  <2>2. SeatLetIn' = None
    BY <2>1 DEF SeatLetIn
  <2>3. CASE OnSeat(person)
    <3>1. greeter = "none" /\ person.stage # "accepted"
      BY <1>1, <2>3 DEF SeatInv, PersonInv, ScreenInv, OnSeat
    <3>2. SeatOwner = person.account /\ SeatOwner' = None /\ SeatLetIn = None
      BY <1>1, <2>1, <2>3, <3>1 DEF SeatOwner, SeatLetIn, OnSeat
    <3> QED BY <1>2, <2>2, <3>2 DEF Seat!Next, Seat!Leaves
  <2>4. CASE ~OnSeat(person)
    <3>1. SeatOwner' = SeatOwner
      BY <1>1, <2>1, <2>4 DEF SeatOwner, OnSeat
    <3> QED BY <2>2, <3>1 DEF SeatStutters, Seat!Next, Seat!TurnedAway
  <2> QED BY <2>3, <2>4
<1> QED BY <1>3, <1>4, <1>5, <1>6 DEF PersonActs

\* The login screen leaves the seat when its process is gone.
LEMMA Promise_Screen ==
    TypeInv /\ SeatInv /\ ScreenActs => SeatStutters \/ Seat!Next
<1> SUFFICES ASSUME TypeInv, SeatInv, ScreenActs PROVE SeatStutters \/ Seat!Next
  OBVIOUS
<1>1. /\ UNCHANGED <<state, account, person>>
      /\ \/ greeter' = greeter
         \/ greeter' = "exited" /\ greeter \in {"running", "stopping", "killed"}
  BY DEF ScreenActs, GreeterConnects, GreeterReads, GreeterExits, GreeterAttempts
<1>2. SeatLetIn' = SeatLetIn
  BY <1>1 DEF SeatLetIn
<1>3. CASE greeter' = greeter
  BY <1>1, <1>2, <1>3 DEF SeatStutters, SeatOwner, OnSeat
<1>4. CASE greeter' = "exited" /\ greeter \in {"running", "stopping", "killed"}
  <2>1. person # None => ~OnSeat(person)
    BY <1>4 DEF SeatInv, PersonInv, ScreenInv
  <2>2. SeatOwner = "screen" /\ SeatOwner' = None
    BY <1>1, <1>4, <2>1 DEF SeatOwner, OnSeat
  <2> QED BY <1>2, <2>2 DEF Seat!Next, Seat!Leaves, SeatStutters
<1> QED BY <1>1, <1>3, <1>4

\* Somebody is let in: the worker that waits has the account the Manager keeps.
LEMMA Promise_Accepted ==
    ASSUME TypeInv, SeatInv, SeatInv', At(Steps), Accept, greeter' = greeter
    PROVE  SeatStutters \/ Seat!Next
<1>1. state = "greeter" /\ state' = "handing over" /\ account' \in Accounts
  BY Checking_Account DEF At, Accept, TypeInv, TypeOK
<1>2. SeatLetIn = None /\ SeatLetIn' \in {account', None}
  BY <1>1 DEF SeatLetIn
<1>3. SeatOwner' = SeatOwner
  BY <1>1 DEF SeatInv, PersonInv, SeatOwner
<1> QED BY <1>1, <1>2, <1>3 DEF SeatStutters, Seat!Next, Seat!LetIn

\* What hear_workers does to the seat: somebody is let in, or nothing.
LEMMA Promise_Hear ==
    TypeInv /\ SeatInv /\ SeatInv' /\ HearPerson => SeatStutters \/ Seat!Next
<1> SUFFICES ASSUME TypeInv, SeatInv, SeatInv', HearPerson PROVE SeatStutters \/ Seat!Next
  OBVIOUS
<1>0. person # None /\ UNCHANGED greeter
  BY DEF HearPerson, HearPam, HearPamAlone, HearPamAccepted, HearPamAcceptedLost,
     HearPamRejected, HearFailure, HearStarted, SessionOver, WorkerLost, HearNothing
<1>1. CASE HearPam \/ HearPamAlone \/ HearPamAcceptedLost \/ HearPamRejected \/ HearFailure
  <2>1. state = "greeter" /\ state' = "greeter"
    BY <1>1 DEF HearPam, HearPamAlone, HearPamAcceptedLost, HearPamRejected, HearFailure, Reject, At
  <2> QED BY <1>0, <2>1, Promise_Idle
<1>2. CASE HearPamAccepted
  <2>1. At(Steps) /\ Accept
    BY <1>2 DEF HearPamAccepted, At, Steps
  <2> QED BY <1>0, <2>1, Promise_Accepted
<1>3. CASE HearStarted \/ SessionOver \/ WorkerLost \/ HearNothing
  <2>1. /\ Heard
        /\ \/ Gone
           \/ state' = state /\ account' = account
           \/ state = "opening" /\ state' = "session" /\ person.said = "started"
    BY <1>3 DEF HearStarted, SessionOver, WorkerLost, HearNothing
  <2>2. CASE Gone
    <3>1. person' = None
      BY <1>0, <2>1, <2>2, Heard_Is
    <3> QED BY <1>0, <2>2, <3>1 DEF Gone, SeatStutters, SeatOwner, SeatLetIn, OnSeat
  <2>3. CASE ~Gone
    <3>1. person' # None /\ person'.stage = person.stage /\ person'.account = person.account
      BY <1>0, <2>1, <2>3, Heard_Is
    <3>2. SeatOwner' = SeatOwner
      BY <1>0, <3>1 DEF SeatOwner, OnSeat
    <3>3. CASE state' = state /\ account' = account
      BY <1>0, <3>1, <3>2, <3>3 DEF SeatStutters, SeatLetIn
    <3>4. CASE state = "opening" /\ state' = "session" /\ person.said = "started"
      <4>1. person.stage # "accepted"
        BY <1>0, <3>4 DEF SeatInv, PersonInv
      <4> QED BY <3>1, <3>2, <3>4, <4>1 DEF SeatStutters, SeatLetIn
    <3> QED BY <2>1, <2>3, <3>3, <3>4
  <2> QED BY <2>2, <2>3
<1> QED BY <1>1, <1>2, <1>3 DEF HearPerson

\* What Manager::online_checked does to the seat: somebody is let in, or nothing.
LEMMA Promise_Online ==
    TypeInv /\ SeatInv /\ SeatInv' =>
        \A t \in online : HearOnline(t) => SeatStutters \/ Seat!Next
<1> SUFFICES ASSUME TypeInv, SeatInv, SeatInv', NEW t \in online, HearOnline(t)
             PROVE  SeatStutters \/ Seat!Next
  OBVIOUS
<1>1. UNCHANGED greeter
  BY DEF HearOnline, OnlineStale, OnlineAccepted, OnlineReplaced, OnlineReplacedFails,
     OnlineRefused, Answers
<1>2. ASSUME NEW verdict, OnlineStale(t, verdict) PROVE SeatStutters
  BY <1>1, <1>2 DEF OnlineStale, SeatStutters, SeatOwner, SeatLetIn, OnSeat
<1>3. CASE OnlineAccepted(t)
  <2>1. At(Steps) /\ Accept
    BY <1>3 DEF OnlineAccepted, Current, At, Steps
  <2> QED BY <1>1, <2>1, Promise_Accepted
<1>4. ASSUME NEW verdict,
             OnlineReplaced(t) \/ OnlineReplacedFails(t) \/ OnlineRefused(t, verdict)
      PROVE  SeatStutters
  <2>1. state = "greeter" /\ state' = "greeter"
    BY <1>4 DEF OnlineReplaced, OnlineReplacedFails, OnlineRefused, Current, At, Reject
  <2> QED BY <1>1, <2>1, Promise_Idle
<1> QED BY <1>2, <1>3, <1>4 DEF HearOnline

\* Every step of the login program is a step of SeatHandover or leaves the seat as it is.
LEMMA Promise_Next ==
    TypeInv /\ SeatInv /\ SeatInv' /\ [Next]_vars => [Seat!Next]_(Seat!vars)
<1> SUFFICES ASSUME TypeInv, SeatInv, SeatInv', [Next]_vars PROVE SeatStutters \/ Seat!Next
  BY DEF SeatStutters, Seat!vars
<1>1. ASSUME NEW n \in Attempts, HearAttempt(n) PROVE SeatStutters
  <2>1. /\ UNCHANGED <<state, account, greeter>>
        /\ state = "greeter" \/ UNCHANGED person
    BY <1>1 DEF HearAttempt, AttemptUnlisted, AttemptBusy, AttemptThrottled, AttemptNotEnrolled,
       AttemptChecked, AttemptFails, Hears, Free
  <2>2. CASE state = "greeter"
    BY <2>1, <2>2, Promise_Idle
  <2>3. CASE UNCHANGED person
    BY <2>1, <2>3 DEF SeatStutters, SeatOwner, SeatLetIn, OnSeat
  <2> QED BY <2>1, <2>2, <2>3
<1>2. CASE StartGreeter
  <2>1. /\ greeter = "none" /\ greeter' = "running" /\ UNCHANGED <<state, account, person>>
        /\ person # None => ~OnSeat(person)
    BY <1>2 DEF StartGreeter, SeatInv, ScreenInv, PersonInv
  <2>2. SeatOwner = None /\ SeatOwner' = "screen" /\ SeatLetIn' = SeatLetIn
    BY <2>1 DEF SeatOwner, SeatLetIn, OnSeat
  <2> QED BY <2>2 DEF Seat!Next, Seat!ScreenTakes
<1>3. CASE StartGreeterFails \/ GreeterEnded
  <2>1. /\ GreeterGone /\ greeter \in {"none", "exited"} /\ greeter' = "none"
        /\ state \in {"greeter", "handing over"}
    BY <1>3 DEF StartGreeterFails, GreeterEnded, SeatInv, ScreenInv, TypeInv, TypeOK, ManagerTypes
  <2>2. CASE state = "greeter"
    <3>1. state' = "greeter"
      BY <2>1, <2>2 DEF GreeterGone
    <3> QED BY <2>1, <2>2, <3>1 DEF SeatInv, PersonInv, SeatStutters, SeatOwner, SeatLetIn
  <2>3. CASE state = "handing over"
    <3>1. /\ state' = "opening" /\ account' = account /\ person \in Workers /\ person # None
          /\ person' = [person EXCEPT !.open = TRUE]
      BY <2>1, <2>3, Person_Type DEF GreeterGone, SeatInv, PersonInv, TypeInv, TypeOK
    <3>2. /\ person'.stage = person.stage /\ person'.account = person.account /\ person' # None
      <4>1. person' \in Workers
        BY <3>1 DEF Workers
      <4> QED BY <3>1, <4>1 DEF Workers
    <3> QED BY <2>1, <2>3, <3>1, <3>2 DEF SeatStutters, SeatOwner, SeatLetIn, OnSeat
  <2> QED BY <2>1, <2>2, <2>3
<1>4. CASE \/ AcceptConnection \/ HearClosed \/ Tick \/ (\E n \in Names : WaitOver(n))
           \/ (\E w \in abandoned : Reap(w)) \/ UNCHANGED vars
  <2>1. /\ UNCHANGED <<state, account, person>>
        /\ \/ greeter' = greeter
           \/ greeter \in {"running", "stopping"} /\ greeter' \in {"stopping", "killed"}
    BY <1>4 DEF AcceptConnection, HearClosed, Tick, WaitOver, Reap, vars
  <2> QED BY <2>1 DEF SeatStutters, SeatOwner, SeatLetIn, OnSeat
<1> QED BY <1>1, <1>2, <1>3, <1>4, Promise_Person, Promise_Screen, Promise_Hear, Promise_Online
        DEF Next

\* The login program implements SeatHandover: each of its steps takes, leaves or
\* passes on the seat as that allows, or does not touch it.
THEOREM Login_SeatPromise == Spec => SeatPromise
<1>1. SeatInv /\ TypeInv /\ SeatInv' /\ [Next]_vars => [Seat!Next]_(Seat!vars)
  BY Promise_Next
<1> QED
  BY <1>1, Promise_Init, TypeInv_Init, TypeInv_Next, SeatInv_Init, SeatInv_Next, PTL
  DEF Spec, SeatPromise, Seat!Spec
=============================================================================
