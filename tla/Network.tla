------------------------------- MODULE Network -------------------------------
(***************************************************************************)
(* The HTTP engine of an application (oxyos-net lib.rs and, over the C     *)
(* ABI, oxyos-client-ffi net.rs): each request runs on a thread of its     *)
(* own, what it answers is queued, and the application takes it when the   *)
(* network's descriptor is readable.  A request may be aborted, time out,  *)
(* be redirected, or lose its connection and be tried again.               *)
(*                                                                         *)
(* Two mutexes and a socket join the threads: Shared::answer keeps "heard" *)
(* while it queues an answer and then wakes the application, which takes   *)
(* answers in between; the socket is drained when the queue is empty.      *)
(***************************************************************************)
EXTENDS Naturals, Sequences, Queues

CONSTANTS Ids,          \* the requests, by id
          MaxRedirects, \* redirects followed before a request fails (20)
          MaxRetries,   \* attempts after the first whose connection was lost (3)
          MaxParts,     \* bound: parts of a body read as they arrive
          None

NetworkBounds == {MaxRedirects, MaxRetries, MaxParts} \subseteq Nat /\ None \notin Ids

Kinds == {"sent", "response", "chunk", "data", "complete"}

VARIABLES heard,   \* requests started and neither completed nor aborted
          answers, \* the answers queued
          wakes,   \* bytes in the socket: readable while there are any
          run,     \* each request's thread
          queuing, \* the thread in Shared::answer that has queued and not yet woken
          given,   \* ghost: the kinds of answers the application took, per request
          aborted  \* ghost: requests aborted

vars == <<heard, answers, wakes, run, queuing, given, aborted>>

Thread(at) == [at |-> at, retries |-> 0, redirects |-> 0, parts |-> 0, cancel |-> FALSE,
               incremental |-> FALSE, says |-> None, then |-> "none"]

Init ==
  /\ heard = {} /\ answers = <<>> /\ wakes = 0 /\ queuing = None
  /\ run = [i \in Ids |-> Thread("none")]
  /\ given = [i \in Ids |-> <<>>] /\ aborted = {}

Becomes(i, next) == run' = [run EXCEPT ![i] = next]

-----------------------------------------------------------------------------
(* Network::send: the request is heard, and its thread starts; or it       *)
(* cannot, which completes it.                                             *)
Send(i, incremental) ==
  /\ run[i].at = "none" /\ queuing = None
  /\ heard' = heard \cup {i}
  /\ \E at \in {"asks", "failed"} :
       Becomes(i, [Thread(at) EXCEPT !.incremental = incremental])
  /\ UNCHANGED <<answers, wakes, queuing, given, aborted>>

(* Network::abort, under the mutex of heard. *)
Abort(i) ==
  /\ run[i].at # "none" /\ i \notin aborted /\ queuing = None
  /\ heard' = heard \ {i}
  /\ Becomes(i, [run[i] EXCEPT !.cancel = i \in heard])
  /\ answers' = AtThose(answers, {n \in DOMAIN answers : answers[n].id # i})
  /\ aborted' = aborted \cup {i}
  /\ UNCHANGED <<wakes, queuing, given>>

(* oxyos_net_answer gives the application the first answer, of its kind. *)
Given(queue) == IF queue = <<>> THEN given
                ELSE [given EXCEPT ![Head(queue).id] = Append(@, Head(queue).kind)]

(* Network::answer: the first is taken, and the socket drained when none   *)
(* is left.                                                                *)
Take ==
  /\ wakes > 0
  /\ answers' = IF answers = <<>> THEN <<>> ELSE Tail(answers)
  /\ wakes' = IF Len(answers) <= 1 THEN 0 ELSE wakes
  /\ given' = Given(answers)
  /\ UNCHANGED <<heard, run, queuing, aborted>>

-----------------------------------------------------------------------------
(* A request's thread: run.  Each attempt looks at whether it is cancelled.*)
Attempt(i) ==
  /\ run[i].at = "asks"
  /\ Becomes(i, [run[i] EXCEPT !.at = IF run[i].cancel THEN "failed" ELSE "waits"])
  /\ UNCHANGED <<heard, answers, wakes, queuing, given, aborted>>

Says(i, kind, then) ==
  Becomes(i, [run[i] EXCEPT !.at = "says", !.says = kind, !.then = then])

(* Sending::read tells how much was sent of the body. *)
Progress(i) ==
  /\ run[i].at = "waits" /\ run[i].parts < MaxParts
  /\ Says(i, "sent", "waits")
  /\ UNCHANGED <<heard, answers, wakes, queuing, given, aborted>>

(* The connection is lost before any response, or the deadline passes. *)
Lost(i) ==
  /\ run[i].at = "waits"
  /\ Becomes(i, IF run[i].retries < MaxRetries
                THEN [run[i] EXCEPT !.at = "asks", !.retries = @ + 1, !.parts = 0]
                ELSE [run[i] EXCEPT !.at = "failed"])
  /\ UNCHANGED <<heard, answers, wakes, queuing, given, aborted>>

Fails(i) ==
  /\ run[i].at \in {"waits", "body"}
  /\ Becomes(i, [run[i] EXCEPT !.at = "failed"])
  /\ UNCHANGED <<heard, answers, wakes, queuing, given, aborted>>

(* A redirect is followed, its attempts counted anew. *)
Redirect(i) ==
  /\ run[i].at = "waits"
  /\ Becomes(i, IF run[i].redirects = MaxRedirects THEN [run[i] EXCEPT !.at = "failed"]
                ELSE [run[i] EXCEPT !.at = "asks", !.redirects = @ + 1,
                                    !.retries = 0, !.parts = 0])
  /\ UNCHANGED <<heard, answers, wakes, queuing, given, aborted>>

Respond(i) ==
  /\ run[i].at = "waits"
  /\ Becomes(i, [run[i] EXCEPT !.at = "says", !.says = "response", !.then = "body",
                               !.parts = 0])
  /\ UNCHANGED <<heard, answers, wakes, queuing, given, aborted>>

(* The body: a chunk as it arrives, or all of it; it ends. *)
Body(i) ==
  /\ run[i].at = "body"
  /\ \/ run[i].incremental /\ ~run[i].cancel /\ run[i].parts < MaxParts /\ Says(i, "chunk", "body")
     \/ run[i].incremental /\ ~run[i].cancel /\ Says(i, "complete", "ended")
     \/ ~run[i].incremental /\ ~run[i].cancel /\ Says(i, "data", "done")
     \/ run[i].cancel /\ Becomes(i, [run[i] EXCEPT !.at = "failed"])
  /\ UNCHANGED <<heard, answers, wakes, queuing, given, aborted>>

Completes(i) ==
  /\ run[i].at \in {"failed", "done"}
  /\ Says(i, "complete", "ended")
  /\ UNCHANGED <<heard, answers, wakes, queuing, given, aborted>>

(* Shared::answer, which keeps heard: an answer of a request still heard   *)
(* is queued, a completion its last ...                                    *)
Still(i) == i \in heard

Queue(i) ==
  /\ run[i].at = "says" /\ queuing = None
  /\ heard' = IF run[i].says = "complete" THEN heard \ {i} ELSE heard
  /\ LET next == [run[i] EXCEPT !.at = run[i].then,
                                !.parts = IF run[i].says \in {"chunk", "sent"} THEN @ + 1 ELSE @]
     IN  Becomes(i, [next EXCEPT !.says = None, !.then = "none"])
  /\ answers' = IF Still(i) THEN Append(answers, [id |-> i, kind |-> run[i].says]) ELSE answers
  /\ queuing' = IF Still(i) THEN i ELSE None
  /\ UNCHANGED <<wakes, given, aborted>>

(* ... and the application is woken. *)
Wake ==
  /\ queuing # None
  /\ wakes' = wakes + 1 /\ queuing' = None
  /\ UNCHANGED <<heard, answers, run, given, aborted>>

-----------------------------------------------------------------------------
Thread_(i) == \/ Attempt(i) \/ Progress(i) \/ Lost(i) \/ Fails(i) \/ Redirect(i)
              \/ Respond(i) \/ Body(i) \/ Completes(i) \/ Queue(i)

Next ==
  \/ \E i \in Ids : \/ \E incremental \in BOOLEAN : Send(i, incremental)
                    \/ Abort(i) \/ Thread_(i)
  \/ Take \/ Wake

(* A request's thread goes on: its connection answers, is lost or times    *)
(* out; and the application polls the descriptor.                          *)
Fairness == WF_vars(Take) /\ WF_vars(Wake) /\ \A i \in Ids : WF_vars(Thread_(i)) /\ SF_vars(Queue(i))

Spec == Init /\ [][Next]_vars
LiveSpec == Spec /\ Fairness

-----------------------------------------------------------------------------
Threads == [at : {"none", "asks", "waits", "body", "failed", "done", "says", "ended"},
            retries : 0..MaxRetries, redirects : 0..MaxRedirects, parts : Nat,
            cancel : BOOLEAN, incremental : BOOLEAN, says : Kinds \cup {None},
            then : {"none", "waits", "body", "done", "ended"}]

TypeOK ==
  /\ heard \subseteq Ids /\ aborted \subseteq Ids
  /\ answers \in Seq([id : Ids, kind : Kinds]) /\ wakes \in Nat
  /\ run \in [Ids -> Threads] /\ queuing \in Ids \cup {None}
  /\ given \in [Ids -> Seq(Kinds)]

(* A request's answers are in the order the application builds a response  *)
(* by: what was sent, a response, its body, and one end after all else,    *)
(* which may come at any time.                                             *)
Rank == [kind \in Kinds |-> CASE kind = "sent" -> 1 [] kind = "response" -> 2
                              [] kind \in {"chunk", "data"} -> 3 [] OTHER -> 4]

Precedes(before, after) ==
  /\ Rank[before] <= Rank[after]
  /\ before \in {"response", "data", "complete"} => before # after

InOrder == \A i \in Ids :
  /\ \A m, n \in DOMAIN given[i] : m < n => Precedes(given[i][m], given[i][n])
  /\ \A n \in DOMAIN answers : answers[n].id = i =>
       /\ \A m \in DOMAIN given[i] : Precedes(given[i][m], answers[n].kind)
       /\ \A m \in 1..(n - 1) : answers[m].id = i => Precedes(answers[m].kind, answers[n].kind)

(* An aborted request delivers nothing more, not even its completion.      *)
Silent == \A i \in Ids : i \in aborted => given'[i] = given[i]

(* The descriptor is readable while answers are queued, once the thread    *)
(* that queued one is through: none waits for a wake that was drained.     *)
Readable == answers # <<>> /\ queuing = None => wakes > 0

(* Every request ends: it is aborted or its completion is delivered,       *)
(* however often its connection is lost and wherever it is redirected.     *)
Ends == \A i \in Ids :
  run[i].at # "none" ~> (i \in aborted \/ \E n \in DOMAIN given[i] : given[i][n] = "complete")

=============================================================================
