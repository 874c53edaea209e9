--------------------------- MODULE Registrations ---------------------------
(***************************************************************************)
(* Which processes the accounts' service takes for a session's             *)
(* applications (crates/oxyos-account/src/session.rs): the session's       *)
(* registrar thread hands over the processes it launches, connecting again *)
(* when the service was restarted; the service keeps a registration while  *)
(* its process lives and its registrar's connection is open, and           *)
(* classifies a peer by its pid, which the kernel uses again.              *)
(***************************************************************************)
EXTENDS Naturals, FiniteSets

CONSTANTS Launched,   \* processes the session launches
          Strangers,  \* the user's other processes
          Pids,
          Peers,      \* connections to the session socket
          MaxPlaces,  \* MAX_APPLICATION_CONNECTIONS
          Retries,    \* the length of RECONNECT
          MaxStops,   \* bound on the service's restarts
          None

RegistrationBounds == /\ MaxPlaces \in Nat \ {0} /\ Retries \in Nat \ {0} /\ MaxStops \in Nat
                      /\ Launched \cap Strangers = {} /\ None \notin Launched \cup Strangers
                      /\ None \notin Pids /\ None \notin Nat
                      /\ IsFiniteSet(Launched) /\ IsFiniteSet(Peers)

Processes == Launched \cup Strangers

VARIABLES
    \* the kernel
    pid,           \* the pid of each process that runs
    born,          \* the processes that ran
    \* the session's registrar thread
    launches,      \* processes handed to it, not received yet
    running,       \* its `live`: the ones received, while they run
    connected,     \* its registrar: the service's run it is connected to
    retry,         \* attempts made since the service went
    todo,          \* processes to register on a new connection
    thread,        \* what it does
    \* the service
    up,            \* the service's run, if it runs
    stops,         \* how many times it stopped
    serving,       \* it serves the thread's connection
    registrations, \* process and pid
    places,        \* open_applications
    peers          \* each connection: its process, the pid read, the registration found

sessionVars == <<launches, running, connected, retry, todo, thread>>
serviceVars == <<up, stops, serving, registrations, places>>
vars == <<pid, born, sessionVars, serviceVars, peers>>

Alive(p) == pid[p] # None
NoPeer == [process |-> None, at |-> "none", pid |-> None, found |-> None]

----------------------------------------------------------------------------
(* Processes.                                                              *)

FreePids == Pids \ {pid[p] : p \in Processes}
Runs(p) == /\ p \notin born /\ born' = born \cup {p}
           /\ \E n \in FreePids : pid' = [pid EXCEPT ![p] = n]

(* The session launches an application and hands it to its thread.         *)
Launch(p) ==
    /\ p \in Launched /\ Runs(p)
    /\ launches' = launches \cup {p}
    /\ UNCHANGED <<running, connected, retry, todo, thread, serviceVars, peers>>

StrangerRuns(p) ==
    /\ p \in Strangers /\ Runs(p)
    /\ UNCHANGED <<sessionVars, serviceVars, peers>>

Exits(p) ==
    /\ Alive(p) /\ pid' = [pid EXCEPT ![p] = None] /\ UNCHANGED born
    /\ UNCHANGED <<sessionVars, serviceVars, peers>>

----------------------------------------------------------------------------
(* The service.                                                            *)

(* register: a process that runs, in place of one that had its pid.        *)
Registered(p) ==
    IF Alive(p)
      THEN {r \in registrations : r.pid # pid[p]} \cup {[process |-> p, pid |-> pid[p]]}
      ELSE registrations

(* serve_registrar: a registration whose process exited is dropped.        *)
DropExited ==
    /\ serving
    /\ \E r \in registrations : ~Alive(r.process) /\ registrations' = registrations \ {r}
    /\ UNCHANGED <<pid, born, sessionVars, up, stops, serving, places, peers>>

(* drop_registrar: the thread's connection has closed.                     *)
DropRegistrar ==
    /\ serving /\ connected # up
    /\ serving' = FALSE /\ registrations' = {}
    /\ UNCHANGED <<pid, born, sessionVars, up, stops, places, peers>>

Stops ==
    /\ up # None /\ stops < MaxStops
    /\ up' = None /\ stops' = stops + 1
    /\ serving' = FALSE /\ registrations' = {} /\ places' = 0
    /\ peers' = [c \in Peers |-> NoPeer]
    /\ UNCHANGED <<pid, born, sessionVars>>

Starts ==
    /\ up = None /\ up' = stops
    /\ UNCHANGED <<pid, born, sessionVars, stops, serving, registrations, places, peers>>

----------------------------------------------------------------------------
(* The registrar thread.                                                   *)

Connected == connected # None /\ connected = up

(* The service has gone: the connection is let go, and tried again.        *)
Lost ==
    /\ thread = "poll" /\ connected # None /\ connected # up
    /\ connected' = None /\ retry' = 0
    /\ UNCHANGED <<pid, born, launches, running, todo, thread, serviceVars, peers>>

Forget ==
    /\ thread = "poll" /\ \E p \in running : ~Alive(p)
    /\ running' = {p \in running : Alive(p)}
    /\ UNCHANGED <<pid, born, launches, connected, retry, todo, thread, serviceVars, peers>>

(* A launch received: registered if connected; a connection that fails is  *)
(* tried again.                                                            *)
Receive(p) ==
    /\ thread \in {"poll", "receiving"} /\ p \in launches
    /\ launches' = launches \ {p} /\ running' = running \cup {p} /\ thread' = "receiving"
    /\ IF Connected
         THEN registrations' = Registered(p) /\ UNCHANGED <<connected, retry>>
         ELSE /\ UNCHANGED registrations
              /\ connected' = None /\ retry' = IF connected # None THEN 0 ELSE retry
    /\ UNCHANGED <<pid, born, todo, up, stops, serving, places, peers>>

(* All received: not connected and not waiting to, it tries to.            *)
Received ==
    /\ thread = "receiving" /\ launches = {}
    /\ thread' = IF connected = None /\ retry = None THEN "connecting" ELSE "poll"
    /\ UNCHANGED <<pid, born, launches, running, connected, retry, todo, serviceVars, peers>>

(* The wait is over.                                                       *)
Retry ==
    /\ thread = "poll" /\ retry # None
    /\ thread' = "connecting"
    /\ UNCHANGED <<pid, born, launches, running, connected, retry, todo, serviceVars, peers>>

(* Not connected: the next wait of RECONNECT, if one is left.              *)
TriesAgain ==
    /\ thread' = "poll" /\ connected' = None /\ todo' = {}
    /\ retry' = IF retry = None \/ retry + 1 >= Retries THEN None ELSE retry + 1

Connect ==
    /\ thread = "connecting"
    /\ IF up # None
         THEN /\ connected' = up /\ serving' = TRUE
              /\ todo' = running /\ thread' = "registering"
              /\ UNCHANGED retry
         ELSE TriesAgain /\ UNCHANGED serving
    /\ UNCHANGED <<pid, born, launches, running, up, stops, registrations, places, peers>>

(* Every process that still runs is registered on the new connection.      *)
RegisterAgain ==
    /\ thread = "registering"
    /\ \/ /\ Connected /\ todo # {}
          /\ \E p \in todo : todo' = todo \ {p} /\ registrations' = Registered(p)
          /\ UNCHANGED <<connected, retry, thread>>
       \/ /\ todo = {} /\ thread' = "poll" /\ retry' = None
          /\ UNCHANGED <<connected, todo, registrations>>
       \/ /\ ~Connected /\ todo # {} /\ TriesAgain
          /\ UNCHANGED registrations
    /\ UNCHANGED <<pid, born, launches, running, up, stops, serving, places, peers>>

(* The session lets go of its registrar: it is ending, its applications    *)
(* may still run.                                                          *)
SessionEnds ==
    /\ thread = "poll"
    /\ thread' = "ended" /\ connected' = None /\ retry' = None
    /\ UNCHANGED <<pid, born, launches, running, todo, serviceVars, peers>>

----------------------------------------------------------------------------
(* A peer of the session socket: classify, then serve.                     *)

Becomes(c, peer) == peers' = [peers EXCEPT ![c] = peer]

(* Its pid is read from its pidfd.                                         *)
ReadPid(c, p) ==
    /\ up # None /\ peers[c] = NoPeer /\ Alive(p)
    /\ Becomes(c, [process |-> p, at |-> "read", pid |-> pid[p], found |-> None])
    /\ UNCHANGED <<pid, born, sessionVars, serviceVars>>

(* The registration of that pid, under the registrations' lock.            *)
Find(c) ==
    /\ peers[c].at = "read"
    /\ \/ /\ \A r \in registrations : r.pid # peers[c].pid
          /\ Becomes(c, NoPeer)
       \/ \E r \in registrations :
            /\ r.pid = peers[c].pid
            /\ Becomes(c, [peers[c] EXCEPT !.at = "found", !.found = r])
    /\ UNCHANGED <<pid, born, sessionVars, serviceVars>>

(* A mistake: the peer's own pid is not read again.                        *)
SameProcessOnce(c) == Alive(peers[c].found.process)

(* Both pids are read again: two live processes never share one.           *)
SameProcess(c) == Alive(peers[c].found.process) /\ Alive(peers[c].process)

Classify(c) ==
    /\ peers[c].at = "found"
    /\ IF SameProcess(c) /\ places < MaxPlaces
         THEN Becomes(c, [peers[c] EXCEPT !.at = "served"]) /\ places' = places + 1
         ELSE Becomes(c, NoPeer) /\ UNCHANGED places
    /\ UNCHANGED <<pid, born, sessionVars, up, stops, serving, registrations>>

(* serve_application: a request is answered while its registration lives.  *)
Live(c) == peers[c].found \in registrations /\ Alive(peers[c].found.process)

(* It closes, waits too long, or asks once its registration has ended.     *)
Close(c) ==
    /\ peers[c].at = "served" /\ Becomes(c, NoPeer)
    /\ places' = places - 1
    /\ UNCHANGED <<pid, born, sessionVars, up, stops, serving, registrations>>

----------------------------------------------------------------------------
Init ==
    /\ pid = [p \in Processes |-> None] /\ born = {}
    /\ launches = {} /\ running = {} /\ connected = None /\ retry = None /\ todo = {}
    /\ thread = "poll"
    /\ up \in {0, None} /\ stops = 0 /\ serving = FALSE
    /\ registrations = {} /\ places = 0 /\ peers = [c \in Peers |-> NoPeer]

Thread == \/ Lost \/ Forget \/ Received \/ Retry \/ Connect \/ RegisterAgain
          \/ \E p \in Launched : Receive(p)
Service == \/ DropExited \/ DropRegistrar
           \/ \E c \in Peers : Find(c) \/ Classify(c) \/ Close(c)
Next == \/ \E p \in Processes : Launch(p) \/ StrangerRuns(p) \/ Exits(p)
        \/ \E c \in Peers, p \in Processes : ReadPid(c, p)
        \/ Thread \/ SessionEnds \/ Service \/ Stops \/ Starts

Spec == Init /\ [][Next]_vars

(* The thread goes on; the service is started again when it stopped.       *)
LiveSpec == Spec /\ WF_vars(Thread) /\ WF_vars(Starts)

----------------------------------------------------------------------------
(* Properties.                                                             *)

Registration == [process: Launched, pid: Pids]

(* Type correctness.                                                       *)
TypeOK ==
    /\ pid \in [Processes -> Pids \cup {None}] /\ born \subseteq Processes
    /\ launches \subseteq Launched /\ running \subseteq Launched /\ todo \subseteq running
    /\ connected \in 0..MaxStops \cup {None} /\ up \in 0..MaxStops \cup {None}
    /\ retry \in 0..(Retries - 1) \cup {None} /\ stops \in 0..MaxStops
    /\ thread \in {"poll", "receiving", "connecting", "registering", "ended"}
    /\ serving \in BOOLEAN /\ registrations \subseteq Registration
    /\ peers \in [Peers -> [process: Processes \cup {None}, at: {"none", "read", "found", "served"},
                            pid: Pids \cup {None}, found: Registration \cup {None}]]

(* Only the process a session launched and registered is served as its     *)
(* application: never one that got its pid after it, nor one whose pid was *)
(* given to it (classify reads both pids again).                           *)
ServedIsRegistered ==
    \A c \in Peers : peers[c].at = "served" => peers[c].process = peers[c].found.process

(* A registration ends with its registrar's connection.                    *)
RegistrationsServed == registrations # {} => serving

(* A place is held by a connection that is served, and by no other.        *)
PlacesCounted == places = Cardinality({c \in Peers : peers[c].at = "served"})

(* While the thread is connected and waits, every process it launched that *)
(* still runs is registered, whatever was launched while the service was   *)
(* away, failed in the middle of registering, or had its pid used again.   *)
ConnectedRegistered ==
    thread = "poll" /\ Connected =>
        \A p \in running : Alive(p) => \E r \in registrations : r.process = p

(* A process launched is registered in the end, unless it exits or the     *)
(* waits of RECONNECT are all spent (then at the next launch).             *)
RegisteredInTheEnd ==
    \A p \in Launched :
        Alive(p) ~> \/ ~Alive(p)
                    \/ \E r \in registrations : r.process = p
                    \/ connected = None /\ retry = None
=============================================================================
