---------------------------- MODULE RemoteImages ----------------------------
(***************************************************************************)
(* Remote images (oxyos-image remote.rs and its Loader, called over the C  *)
(* ABI by oxyos-client-ffi images.rs): loads of one image at once share a  *)
(* fetch, which runs on a thread of its own and answers each load that     *)
(* waits for it; encoded images are kept in memory above the disk cache.   *)
(*                                                                         *)
(* A loader is used by one thread, the application's: its calls follow one *)
(* another, each by the steps its mutexes cut it into, and the threads of  *)
(* fetches come between.  An image is its request (the loads of one        *)
(* request differ in what they want of it, which the answers abstract).    *)
(***************************************************************************)
EXTENDS Naturals, Sequences, Functions, FiniteSets, Queues

CONSTANTS Images,     \* the images, each the request it makes
          Loads,      \* the application's loads, by id
          MaxFlights, \* bound: fetches started
          MaxParts,   \* bound: parts of a body that arrive in one fetch
          MaxClears,  \* bound: clears of the memory cache, and of freshness
          Again,      \* whether a load may follow a cancelled fetch of its image
                      \* that has not ended
          CancelsLate,\* whether a load is cancelled once its fetch has its answers
          None

Policies == {"default", "force cache", "reload"}
LoadsAt == [image : Images, cancelled : BOOLEAN]
Calls == [does : {"joins"}, load : Loads, image : Images]
         \cup [does : {"cancels"}, load : Loads]
Flights == [waiting : SUBSET Loads, by : Nat]
Threads == [image : Images, at : {"fetches", "arrived", "failed", "answers", "ended"},
            waiting : SUBSET Loads, cancel : BOOLEAN, parts : Nat]

ImageBounds == /\ {MaxFlights, MaxParts, MaxClears} \subseteq Nat
               /\ {Again, CancelsLate} \subseteq BOOLEAN
               /\ IsFiniteSet(Loads) /\ None \notin LoadsAt \cup Calls \cup Flights

VARIABLES load,    \* each load: its image and where it is
          call,    \* the application's call that is half done, or None
          flights, \* the fetch on its way for each image, or None
          thread,  \* the fetches' threads, by number
          memory,  \* the images kept in memory, and those of them still fresh
          answers, \* the answers queued: loads, and whether they end
          given,   \* ghost: the answers the application took of each load
          clears

vars == <<load, call, flights, thread, memory, answers, given, clears>>

Init ==
  /\ load = [l \in Loads |-> None] /\ call = None
  /\ flights = [i \in Images |-> None] /\ thread = <<>>
  /\ memory = [kept |-> {}, fresh |-> {}]
  /\ answers = <<>> /\ given = [l \in Loads |-> <<>>] /\ clears = 0

(* Memory::get: what is kept and may be used without asking. *)
Usable(i, policy) == \/ policy = "force cache" /\ i \in memory.kept
                     \/ policy = "default" /\ i \in memory.fresh

Running(i) == {n \in DOMAIN thread : thread[n].image = i /\ thread[n].at # "ended"}

Answer(l, ends) == [load |-> l, ends |-> ends]

-----------------------------------------------------------------------------
(* oxyos_images_fetch, Loader::fetch: an image usable in memory is decoded *)
(* on a thread of its own ...                                              *)
Fetch(l, i, policy) ==
  /\ call = None /\ load[l] = None
  /\ Again \/ \A n \in Running(i) : ~thread[n].cancel
  /\ load' = [load EXCEPT ![l] = [image |-> i, cancelled |-> FALSE]]
  /\ IF Usable(i, policy)
     THEN /\ thread' = Append(thread, [image |-> i, at |-> "answers", waiting |-> {l},
                                       cancel |-> FALSE, parts |-> 0])
          /\ call' = None
     ELSE /\ call' = [does |-> "joins", load |-> l, image |-> i] /\ UNCHANGED thread
  /\ UNCHANGED <<flights, memory, answers, given, clears>>

(* ... and a load of one that is not joins the fetch on its way, or starts *)
(* one.  A thread that cannot start is answered at once.                   *)
Join ==
  /\ call # None /\ call.does = "joins"
  /\ LET l == call.load
         i == call.image
     IN  IF flights[i] # None
         THEN /\ flights' = [flights EXCEPT ![i].waiting = @ \cup {l}]
              /\ UNCHANGED <<thread, answers>>
         ELSE /\ Len(thread) < MaxFlights
              /\ \/ /\ flights' = [flights EXCEPT ![i] =
                                     [waiting |-> {l}, by |-> Len(thread) + 1]]
                    /\ thread' = Append(thread, [image |-> i, at |-> "fetches", waiting |-> {},
                                                 cancel |-> FALSE, parts |-> 0])
                    /\ UNCHANGED answers
                 \/ /\ answers' = Append(answers, Answer(l, TRUE))
                    /\ UNCHANGED <<flights, thread>>
  /\ call' = None
  /\ UNCHANGED <<load, memory, given, clears>>

(* A mistake: the fetch is forgotten and not stopped. *)
CancelForgets(l) ==
  /\ call = None /\ load[l] # None
  /\ ~load[l].cancelled
  /\ CancelsLate \/ \A n \in DOMAIN thread : l \notin thread[n].waiting
  /\ load' = [load EXCEPT ![l].cancelled = TRUE]
  /\ call' = [does |-> "cancels", load |-> l]
  /\ flights' = [i \in Images |-> IF flights[i] = None THEN None
                  ELSE IF flights[i].waiting = {l} THEN None
                  ELSE [flights[i] EXCEPT !.waiting = @ \ {l}]]
  /\ UNCHANGED <<thread, memory, answers, given, clears>>

(* oxyos_images_cancel, Remote::cancel: the load waits no more, and a      *)
(* fetch that nothing waits for is cancelled and forgotten ...             *)
Cancel(l) ==
  /\ call = None /\ load[l] # None
  /\ ~load[l].cancelled
  /\ CancelsLate \/ \A n \in DOMAIN thread : l \notin thread[n].waiting
  /\ load' = [load EXCEPT ![l].cancelled = TRUE]
  /\ call' = [does |-> "cancels", load |-> l]
  /\ LET waits(i) == IF flights[i] = None THEN FALSE ELSE l \in flights[i].waiting
         left(i) == flights[i].waiting \ {l}
     IN  /\ flights' = [i \in Images |->
              IF ~waits(i) THEN flights[i]
              ELSE IF left(i) = {} THEN None
              ELSE [flights[i] EXCEPT !.waiting = left(i)]]
         /\ thread' = [n \in DOMAIN thread |->
              IF \E i \in Images : waits(i) /\ left(i) = {} /\ flights[i].by = n
              THEN [thread[n] EXCEPT !.cancel = TRUE] ELSE thread[n]]
  /\ UNCHANGED <<memory, answers, given, clears>>

(* ... and Loader::cancel drops its answers. *)
Drop ==
  /\ call # None /\ call.does = "cancels"
  /\ answers' = AtThose(answers, {n \in DOMAIN answers : answers[n].load # call.load})
  /\ call' = None
  /\ UNCHANGED <<load, flights, thread, memory, given, clears>>

(* Loader::answer, oxyos_images_answer: the next one. *)
Take ==
  /\ call = None /\ answers # <<>>
  /\ given' = [given EXCEPT ![Head(answers).load] = Append(@, Head(answers).ends)]
  /\ answers' = Tail(answers)
  /\ UNCHANGED <<load, call, flights, thread, memory, clears>>

(* Loader::clear, and time that ends the freshness of what is kept. *)
Clear ==
  /\ call = None /\ clears < MaxClears
  /\ clears' = clears + 1
  /\ \E kept \in {{}, memory.kept} : memory' = [kept |-> kept, fresh |-> {}]
  /\ memory' # memory
  /\ UNCHANGED <<load, call, flights, thread, answers, given>>

-----------------------------------------------------------------------------
(* A fetch's thread: Remote::run. *)
Becomes(n, next) == thread' = [thread EXCEPT ![n] = next]

(* A part arrives: its progress is answered to the loads that wait, under  *)
(* the mutex of the flights.                                               *)
Waiting(n) == IF flights[thread[n].image] = None THEN {} ELSE flights[thread[n].image].waiting

Progress(n) ==
  /\ thread[n].at = "fetches" /\ thread[n].parts < MaxParts
  /\ Becomes(n, [thread[n] EXCEPT !.parts = @ + 1])
  /\ \E order \in Injection(1..Cardinality(Waiting(n)), Waiting(n)) :
       answers' = answers \o [k \in DOMAIN order |-> Answer(order[k], FALSE)]
  /\ UNCHANGED <<load, call, flights, memory, given, clears>>

(* The fetch ends, with a response or without: its flight is taken. *)
Arrive(n) ==
  /\ thread[n].at = "fetches"
  /\ \E at \in {"arrived", "failed"} :
       Becomes(n, [thread[n] EXCEPT !.at = at, !.waiting = Waiting(n)])
  /\ flights' = [flights EXCEPT ![thread[n].image] = None]
  /\ UNCHANGED <<load, call, memory, answers, given, clears>>

(* A cancelled one, or one nothing waits for, ends; else an image goes to  *)
(* memory, fresh or not, and each load that waited is answered.            *)
Keep(n) ==
  /\ thread[n].at \in {"arrived", "failed"}
  /\ IF thread[n].cancel \/ thread[n].waiting = {}
     THEN Becomes(n, [thread[n] EXCEPT !.at = "ended", !.waiting = {}]) /\ UNCHANGED memory
     ELSE /\ Becomes(n, [thread[n] EXCEPT !.at = "answers"])
          /\ IF thread[n].at = "failed" THEN UNCHANGED memory
             ELSE \E fresh \in SUBSET {thread[n].image} :
                    memory' = [kept |-> memory.kept \cup {thread[n].image},
                               fresh |-> (memory.fresh \ {thread[n].image}) \cup fresh]
  /\ UNCHANGED <<load, call, flights, answers, given, clears>>

Answers(n) ==
  /\ thread[n].at = "answers"
  /\ \E l \in thread[n].waiting :
       /\ answers' = Append(answers, Answer(l, TRUE))
       /\ LET left == thread[n].waiting \ {l}
          IN  Becomes(n, [thread[n] EXCEPT !.waiting = left,
                            !.at = IF left = {} THEN "ended" ELSE "answers"])
  /\ UNCHANGED <<load, call, flights, memory, given, clears>>

-----------------------------------------------------------------------------
Next ==
  \/ \E l \in Loads : \/ \E i \in Images, policy \in Policies : Fetch(l, i, policy)
                      \/ Cancel(l)
  \/ Join \/ Drop \/ Take \/ Clear
  \/ \E n \in DOMAIN thread : Progress(n) \/ Arrive(n) \/ Keep(n) \/ Answers(n)

Spec == Init /\ [][Next]_vars

(* The application goes on with its calls and takes what is answered, and  *)
(* each fetch ends.                                                        *)
LiveSpec == /\ Spec
            /\ WF_vars(Join \/ Drop) /\ SF_vars(Take)
            /\ \A n \in 1..(MaxFlights + Cardinality(Loads)) :
                 WF_vars(n \in DOMAIN thread /\ (Arrive(n) \/ Keep(n) \/ Answers(n)))

-----------------------------------------------------------------------------
TypeOK ==
  /\ load \in [Loads -> LoadsAt \cup {None}] /\ call \in Calls \cup {None}
  /\ flights \in [Images -> Flights \cup {None}] /\ thread \in Seq(Threads)
  /\ memory.fresh \subseteq memory.kept /\ memory.kept \subseteq Images
  /\ answers \in Seq([load : Loads, ends : BOOLEAN])
  /\ given \in [Loads -> Seq(BOOLEAN)] /\ clears \in Nat
  /\ \A i \in Images : flights[i] # None =>
       flights[i].waiting # {} /\ flights[i].by \in DOMAIN thread

(* Loads of the same image at once share one fetch: no two fetches of it   *)
(* run that are not cancelled.                                             *)
OneFetch ==
  \A i \in Images : Cardinality({n \in Running(i) : /\ thread[n].at = "fetches"
                                                    /\ ~thread[n].cancel}) <= 1

(* A fetch no load waits for any more stops at its next step. *)
Unwanted ==
  \A n \in DOMAIN thread : thread[n].at = "fetches" /\ ~thread[n].cancel =>
    /\ flights[thread[n].image] # None
    /\ flights[thread[n].image].by = n

(* A load's answers are progress and one that ends it, the last: whatever  *)
(* loads share its fetch, it is never answered twice.                      *)
AnsweredOnce ==
  \A l \in Loads : \A n \in DOMAIN given[l] : given[l][n] => n = Len(given[l])

(* A cancelled load is answered nothing more. *)
Silent == \A l \in Loads : load[l] # None =>
            (load[l].cancelled => given'[l] = given[l])

(* Every load that is not cancelled is answered to its end. *)
Answered(l) == load[l] # None => (load[l].cancelled \/ TRUE \in Range(given[l]))

Ends == \A l \in Loads : load[l] # None ~> Answered(l)

=============================================================================
