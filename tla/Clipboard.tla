------------------------------ MODULE Clipboard ------------------------------
(* The clipboard: clients copy and paste through the compositor, which holds
   whose offer it is and passes each paste's pipe to the owner, whose library
   keeps the content and writes it.  Requests and events travel in order, one
   connection per client. *)
EXTENDS Integers, Sequences, FiniteSets, SequencesExt

CONSTANTS
    Clients,
    Shell,          \* the client of the panels (in Clients)
    Types,          \* media types
    OFFERS_KEPT,    \* contents a client's library keeps (4 in the code)
    RECENT_INPUTS,  \* serials the compositor remembers per client (16)
    MaxInputs,      \* bound: presses
    MaxCopies,      \* bound: copies, and clears
    MaxPastes,      \* bound: pastes
    MaxFocus,       \* bound: times focus moves, and clients that go
    None

ShellAssumption == Shell \in Clients
LimitsAssumption == /\ OFFERS_KEPT \in Nat \ {0}
                    /\ RECENT_INPUTS \in Nat \ {0}
BoundsAssumption == /\ MaxInputs \in Nat /\ MaxCopies \in Nat
                    /\ MaxPastes \in Nat /\ MaxFocus \in Nat

VARIABLES
    scene,   \* the compositor's: clipboard, offers, told, focus, inputs, and
             \* each selection ever named, with whose offer it was
    emitted, \* events the scene has queued for clients, in order
    peers,   \* per client: the pipes it must answer, in order
    up,      \* per client: requests on their way
    down,    \* per client: events on their way
    lib,     \* per client: its library and what it knows; None once it ended
    pipes,   \* every paste: its state and what was written into it
    spent    \* bounds

vars == <<scene, emitted, peers, up, down, lib, pipes, spent>>

Offers == 1..MaxCopies
Serials == 1..MaxInputs
Selections == 0..MaxCopies
Pastes == 1..MaxPastes
Contents == [owner : Clients, offer : Offers, mime : Types]

TypeOK ==
    /\ scene.clipboard = None \/ scene.clipboard.selection \in Selections
    /\ scene.focus \in Clients \cup {None}
    /\ scene.active \in Clients \cup {None}
    /\ \A c \in Clients : /\ scene.inputs[c] \in Seq(Serials)
                          /\ Len(scene.inputs[c]) <= RECENT_INPUTS
                          /\ peers[c] \in Seq(Pastes)
                          /\ lib[c] # None => Len(lib[c].offers) <= OFFERS_KEPT
    /\ \A p \in Pastes : pipes[p] # None =>
            /\ pipes[p].state \in {"asked", "passed", "writing", "ended"}
            /\ pipes[p].holds \in Contents \cup {None}

Library == [next |-> 0, offers |-> <<>>, knows |-> None, serials |-> {}]

Init ==
    /\ scene = [clipboard |-> None, selections |-> <<>>, told |-> None,
                focus |-> None, active |-> None, serial |-> 0,
                offers |-> [c \in Clients |-> {}],
                inputs |-> [c \in Clients |-> <<>>]]
    /\ emitted = <<>>
    /\ peers = [c \in Clients |-> <<>>]
    /\ up = [c \in Clients |-> <<>>]
    /\ down = [c \in Clients |-> <<>>]
    /\ lib = [c \in Clients |-> Library]
    /\ pipes = [p \in Pastes |-> None]
    /\ spent = [copies |-> 0, pastes |-> 0, focus |-> 0]

Alive(c) == lib[c] # None
Spend(what, most) == /\ spent[what] < most
                     /\ spent' = [spent EXCEPT ![what] = @ + 1]

------------------------------------------------------------------------------
(* The scene, with the events a step queues: [s |-> scene, out |-> events]. *)
Quiet(s) == [s |-> s, out |-> <<>>]

RecentInput(s, c, serial) == Contains(s.inputs[c], serial)

(* Whether the user types into a client: it has the keyboard, or the active
   window while a panel of the shell has it. *)
TypingInto(s, c) ==
    \/ s.focus = c
    \/ s.focus = Shell /\ s.active = c

(* The client with focus is told what the clipboard holds, if it was not. *)
TellClipboard(s) ==
    LET selection == IF s.clipboard = None THEN 0 ELSE s.clipboard.selection
        told == [client |-> s.focus, selection |-> selection]
        types == IF s.clipboard = None THEN {} ELSE s.clipboard.types
    IN  IF s.focus = None THEN Quiet([s EXCEPT !.told = None])
        ELSE IF s.told = told THEN Quiet(s)
        ELSE [s |-> [s EXCEPT !.told = told],
              out |-> <<[to |-> s.focus, kind |-> "types",
                         selection |-> selection, types |-> types]>>]

(* An offer begins, with a recent input of its client. *)
Offer(s, c, r) ==
    IF ~RecentInput(s, c, r.serial) THEN Quiet(s)
    ELSE Quiet([s EXCEPT !.offers[c] =
                    {o \in @ : o.offer # r.offer}
                        \cup {[offer |-> r.offer, types |-> {}]}])

(* An offer that was refused takes no types. *)
Type(s, c, r) ==
    Quiet([s EXCEPT !.offers[c] =
        {IF o.offer = r.offer THEN [o EXCEPT !.types = @ \cup {r.mime}] ELSE o :
            o \in @}])

(* The clipboard changes for the client the user is typing into. *)
Commit(s, c, r) ==
    LET begun == {o \in s.offers[c] : o.offer = r.offer /\ o.types # {}}
        left == [s EXCEPT !.offers[c] = {o \in @ : o.offer # r.offer}]
    IN  IF begun = {} \/ ~TypingInto(s, c) THEN Quiet(left)
        ELSE TellClipboard([left EXCEPT
                !.selections = Append(@, [owner |-> c, offer |-> r.offer]),
                !.clipboard = [owner |-> c, offer |-> r.offer,
                               types |-> (CHOOSE o \in begun : TRUE).types,
                               selection |-> Len(s.selections) + 1]])

Clear(s, c, r) ==
    IF s.clipboard # None
    THEN IF s.clipboard.owner = c /\ RecentInput(s, c, r.serial)
         THEN TellClipboard([s EXCEPT !.clipboard = None]) ELSE Quiet(s)
    ELSE Quiet(s)

(* Whether a paste is of what the clipboard holds, by the client typed into
   with an input of its own. *)
Allowed(s, c, r) ==
    IF s.clipboard = None THEN FALSE
    ELSE /\ TypingInto(s, c) /\ RecentInput(s, c, r.serial)
         /\ s.clipboard.selection = r.selection
         /\ r.mime \in s.clipboard.types

Receive(s, c, r) ==
    IF ~Allowed(s, c, r) THEN Quiet(s)
    ELSE [s |-> s, out |-> <<[to |-> s.clipboard.owner, kind |-> "send",
                              offer |-> s.clipboard.offer, mime |-> r.mime]>>]

(* A client goes: its inputs and offers, and the clipboard if it is its own,
   which is told before focus moves on. *)
Disconnected(s, c, next) ==
    LET left == [s EXCEPT !.inputs[c] = <<>>, !.offers[c] = {}]
        emptied == IF s.clipboard # None /\ (s.clipboard # None =>
                                             s.clipboard.owner = c)
                   THEN TellClipboard([left EXCEPT !.clipboard = None])
                   ELSE Quiet(left)
        forgot == IF emptied.s.told # None /\ (emptied.s.told # None =>
                                               emptied.s.told.client = c)
                  THEN [emptied.s EXCEPT !.told = None] ELSE emptied.s
        moved == IF s.focus # c THEN Quiet(forgot)
                 ELSE TellClipboard([forgot EXCEPT !.focus = next,
                        !.active = IF next = None \/ next = Shell THEN None
                                   ELSE next])
    IN  [s |-> [moved.s EXCEPT !.active = IF @ = c THEN None ELSE @],
         out |-> SelectSeq(emptied.out \o moved.out, LAMBDA e : e.to # c)]

Handle(s, c, r) ==
    CASE r.kind = "offer" -> Offer(s, c, r)
      [] r.kind = "type" -> Type(s, c, r)
      [] r.kind = "commit" -> Commit(s, c, r)
      [] r.kind = "clear" -> Clear(s, c, r)
      [] r.kind = "receive" -> Receive(s, c, r)

------------------------------------------------------------------------------
(* A user input is delivered to a client: a press of its own. *)
Press(c) ==
    /\ Alive(c) /\ scene.serial < MaxInputs
    /\ LET serial == scene.serial + 1
           inputs == Append(scene.inputs[c], serial)
       IN  /\ scene' = [scene EXCEPT !.serial = serial,
                !.inputs[c] = IF Len(inputs) > RECENT_INPUTS
                              THEN Tail(inputs) ELSE inputs]
           /\ lib' = [lib EXCEPT ![c].serials = @ \cup {serial}]
    /\ UNCHANGED <<emitted, peers, up, down, pipes, spent>>

(* The keyboard goes to another client, or to none. *)
Focus(c) ==
    /\ scene.focus # c
    /\ c # None => Alive(c)
    /\ Spend("focus", MaxFocus)
    /\ LET moved == [scene EXCEPT !.focus = c,
                        !.active = IF c = Shell THEN @ ELSE c]
           told == TellClipboard(moved)
       IN  /\ scene' = told.s
           /\ emitted' = emitted \o told.out
    /\ UNCHANGED <<peers, up, down, lib, pipes>>

(* The compositor reads a client's next request; an allowed paste's pipe goes
   to the owner, a refused one is closed. *)
Turn(c) ==
    /\ up[c] # <<>>
    /\ LET r == Head(up[c])
           handled == Handle(scene, c, r)
           sent == handled.out # <<>>
       IN  /\ scene' = handled.s
           /\ emitted' = emitted \o handled.out
           /\ IF r.kind = "receive"
              THEN /\ peers' = IF sent THEN [peers EXCEPT ![handled.out[1].to] =
                                                Append(@, r.pipe)]
                                       ELSE peers
                   /\ pipes' = [pipes EXCEPT ![r.pipe].state =
                                    IF sent THEN "passed" ELSE "ended"]
              ELSE UNCHANGED <<peers, pipes>>
    /\ up' = [up EXCEPT ![c] = Tail(@)]
    /\ UNCHANGED <<down, lib, spent>>

(* The events queued go to their clients, a paste's with the pipe its client
   must answer first. *)
Flush ==
    /\ emitted # <<>>
    /\ LET e == Head(emitted)
           pipe == IF e.kind = "send" THEN Head(peers[e.to]) ELSE None
       IN  /\ down' = [down EXCEPT ![e.to] =
                Append(@, IF e.kind = "send"
                          THEN [kind |-> "send", offer |-> e.offer,
                                mime |-> e.mime, pipe |-> pipe]
                          ELSE [kind |-> "types", selection |-> e.selection,
                                types |-> e.types])]
           /\ peers' = IF e.kind = "send"
                       THEN [peers EXCEPT ![e.to] = Tail(@)] ELSE peers
    /\ emitted' = Tail(emitted)
    /\ UNCHANGED <<scene, up, lib, pipes, spent>>

(* A client's connection ends: pipes it had not answered end with it, as do
   those of its own requests not read. *)
Disconnect(c, next) ==
    /\ Alive(c) /\ c # Shell /\ next # c
    /\ next # None => Alive(next)
    /\ Spend("focus", MaxFocus)
    /\ LET gone == Disconnected(scene, c, next)
           held == Range(peers[c])
                   \cup {e.pipe : e \in {d \in Range(down[c]) : d.kind = "send"}}
                   \cup {r.pipe : r \in {q \in Range(up[c]) : q.kind = "receive"}}
                   \cup {p \in Pastes : IF pipes[p] = None THEN FALSE
                                        ELSE /\ pipes[p].state = "writing"
                                             /\ pipes[p].writer = c}
       IN  /\ scene' = gone.s
           /\ emitted' = SelectSeq(emitted \o gone.out, LAMBDA e : e.to # c)
           /\ pipes' = [p \in Pastes |->
                IF p \in held THEN [pipes[p] EXCEPT !.state = "ended"]
                              ELSE pipes[p]]
    /\ peers' = [peers EXCEPT ![c] = <<>>]
    /\ up' = [up EXCEPT ![c] = <<>>]
    /\ down' = [down EXCEPT ![c] = <<>>]
    /\ lib' = [lib EXCEPT ![c] = None]

------------------------------------------------------------------------------
(* The library keeps the contents of its latest offers. *)
KeptOffers(offers, new) ==
    LET longer == Append(offers, new)
    IN  IF Len(longer) > OFFERS_KEPT THEN Tail(longer) ELSE longer

(* A program copies, citing an input it was given. *)
Copy(c, serial, types) ==
    /\ Alive(c) /\ serial \in lib[c].serials /\ types # {}
    /\ Spend("copies", MaxCopies)
    /\ LET offer == lib[c].next + 1
       IN  /\ up' = [up EXCEPT ![c] = @
                \o <<[kind |-> "offer", offer |-> offer, serial |-> serial]>>
                \o [i \in 1..Cardinality(types) |->
                      [kind |-> "type", offer |-> offer,
                       mime |-> SetToSeq(types)[i]]]
                \o <<[kind |-> "commit", offer |-> offer]>>]
           /\ lib' = [lib EXCEPT ![c].next = offer,
                ![c].offers = KeptOffers(@, [offer |-> offer, types |-> types])]
    /\ UNCHANGED <<scene, emitted, peers, down, pipes>>

ClearClipboard(c, serial) ==
    /\ Alive(c) /\ serial \in lib[c].serials
    /\ Spend("copies", MaxCopies)
    /\ up' = [up EXCEPT ![c] = Append(@, [kind |-> "clear", serial |-> serial])]
    /\ UNCHANGED <<scene, emitted, peers, down, lib, pipes>>

(* A program pastes a type of what it was told the clipboard holds. *)
Paste(c, serial, mime) ==
    /\ Alive(c) /\ serial \in lib[c].serials
    /\ lib[c].knows # None
    /\ mime \in lib[c].knows.types
    /\ Spend("pastes", MaxPastes)
    /\ LET p == spent.pastes + 1
       IN  /\ pipes' = [pipes EXCEPT ![p] =
                [state |-> "asked", reader |-> c, mime |-> mime,
                 selection |-> lib[c].knows.selection,
                 writer |-> None, holds |-> None]]
           /\ up' = [up EXCEPT ![c] = Append(@,
                [kind |-> "receive", selection |-> lib[c].knows.selection,
                 mime |-> mime, serial |-> serial, pipe |-> p])]
    /\ UNCHANGED <<scene, emitted, peers, down, lib>>

(* The client reads its next event.  A paste of content it still keeps is
   written by a thread; of any other the pipe is closed with a later event. *)
Poll(c) ==
    /\ Alive(c) /\ down[c] # <<>>
    /\ LET e == Head(down[c])
           kept == \E i \in DOMAIN lib[c].offers :
                        /\ lib[c].offers[i].offer = e.offer
                        /\ e.mime \in lib[c].offers[i].types
       IN  IF e.kind = "types"
           THEN /\ lib' = [lib EXCEPT ![c].knows =
                    [selection |-> e.selection, types |-> e.types]]
                /\ UNCHANGED pipes
           ELSE /\ pipes' = [pipes EXCEPT ![e.pipe] =
                    IF kept THEN [@ EXCEPT !.state = "writing", !.writer = c,
                                    !.holds = [owner |-> c, offer |-> e.offer,
                                               mime |-> e.mime]]
                            ELSE [@ EXCEPT !.state = "ended"]]
                /\ UNCHANGED lib
    /\ down' = [down EXCEPT ![c] = Tail(@)]
    /\ UNCHANGED <<scene, emitted, peers, up, spent>>

(* The thread has written the whole content and closes the pipe. *)
Written(p) ==
    /\ pipes[p] # None
    /\ pipes[p].state = "writing"
    /\ pipes' = [pipes EXCEPT ![p].state = "ended"]
    /\ UNCHANGED <<scene, emitted, peers, up, down, lib, spent>>

Next ==
    \/ \E c \in Clients : Press(c) \/ Turn(c) \/ Poll(c)
    \/ \E c \in Clients \cup {None} : Focus(c)
    \/ Flush
    \/ \E c \in Clients, next \in Clients \cup {None} : Disconnect(c, next)
    \/ \E c \in Clients, serial \in Serials :
          \/ \E types \in SUBSET Types : Copy(c, serial, types)
          \/ ClearClipboard(c, serial)
          \/ \E mime \in Types : Paste(c, serial, mime)
    \/ \E p \in Pastes : Written(p)

Spec == Init /\ [][Next]_vars

(* Every request is read, every event sent, every client reads its events and
   its threads write. *)
LiveSpec ==
    /\ Spec
    /\ \A c \in Clients : WF_vars(Turn(c)) /\ WF_vars(Poll(c))
    /\ WF_vars(Flush)
    /\ \A p \in Pastes : WF_vars(Written(p))

------------------------------------------------------------------------------
(* What the focused client was told last, read or on its way, is what the
   clipboard holds, wherever focus has been and whoever went. *)
LastTold(c) ==
    LET told == {i \in DOMAIN down[c] : down[c][i].kind = "types"}
        queued == {i \in DOMAIN emitted : /\ emitted[i].to = c
                                          /\ emitted[i].kind = "types"}
        Latest(S) == CHOOSE i \in S : \A j \in S : j <= i
    IN  IF queued # {} THEN emitted[Latest(queued)].selection
        ELSE IF told # {} THEN down[c][Latest(told)].selection
        ELSE IF lib[c].knows = None THEN None ELSE lib[c].knows.selection
FocusedKnows ==
    scene.focus # None =>
        LastTold(scene.focus) = IF scene.clipboard = None THEN 0
                                ELSE scene.clipboard.selection

(* A paste yields the content it named, of the type it named, or nothing: not
   a later copy's, nor the content of another paste answered beside it. *)
OwnContent ==
    \A p \in Pastes :
        pipes[p] # None => (pipes[p].holds # None =>
            /\ pipes[p].holds.mime = pipes[p].mime
            /\ scene.selections[pipes[p].selection] =
                    [owner |-> pipes[p].holds.owner,
                     offer |-> pipes[p].holds.offer])

(* What the clipboard holds, its owner's library still keeps. *)
OwnerKeeps ==
    scene.clipboard # None =>
        \E i \in DOMAIN lib[scene.clipboard.owner].offers :
            /\ lib[scene.clipboard.owner].offers[i].offer = scene.clipboard.offer
            /\ scene.clipboard.types \subseteq
                    lib[scene.clipboard.owner].offers[i].types

(* Every paste ends: answered, refused, or because its owner went. *)
PasteEnds ==
    \A p \in Pastes : pipes[p] # None ~> (pipes[p] # None /\ pipes[p].state = "ended")
==============================================================================
