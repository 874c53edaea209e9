---------------------------- MODULE SceneFrames ----------------------------
(***************************************************************************)
(* Client buffers in the scene and the frames that read them.              *)
(*                                                                         *)
(* A client attaches buffers, submits them to its surfaces and may draw    *)
(* into one again when it is told Released.  The compositor composes a     *)
(* frame for every screen that has none on its way, each frame reading the *)
(* buffers of the surfaces shown on that screen until its own flip; a      *)
(* buffer let go while frames read it is released when the last of them    *)
(* ends (crates/oxyos-compositor-core/src/scene.rs,                        *)
(* crates/oxyos-compositor/src/lib.rs).                                    *)
(*                                                                         *)
(* Abstractions.  A frame is the buffer it names: the sequence, serial and *)
(* extent checks of `Presentation` (module Presentation) decide between    *)
(* Submit, SubmitDiscarded and a refusal, and a refusal disconnects the    *)
(* client (Disconnect).  Geometry is the set of screens a surface is drawn *)
(* on (`span`; empty while hidden, minimised, on another workspace or      *)
(* behind the lock).  `mapped` is `displayed # None`: the two change       *)
(* together.  The compositor is one thread: the steps of one of its turns  *)
(* (`phase`) follow each other with no request or input between them.      *)
(***************************************************************************)
EXTENDS Naturals, FiniteSets

CONSTANTS Clients,    \* connections, each used once
          Surfaces,   \* (client, surface id) keys
          Buffers,    \* (client, buffer id) keys
          Outputs,    \* the displays that can be plugged in
          ClientOf,   \* the client of each surface and buffer
          Windows,    \* surfaces whose role is Toplevel or Dialog
          Spans,      \* the sets of screens a surface can be drawn on
          Careful,    \* clients that submit only buffers they own and never
                      \* give a new buffer an old one's id
          None

ASSUME ClientAssumption == ClientOf \in [Surfaces \cup Buffers -> Clients]
ASSUME WindowAssumption == Windows \subseteq Surfaces /\ Careful \subseteq Clients
ASSUME SpanAssumption   == Spans \subseteq SUBSET Outputs /\ Spans # {}
ASSUME NoneAssumption   == None \notin Surfaces \cup Buffers \cup Outputs

VARIABLES
    clients,      \* Scene.clients: new, connected or gone
    nodes,        \* Scene.nodes: the surfaces that exist
    above,        \* the ancestors of each surface (Node.parent, followed up)
    output,       \* Node.output
    span,         \* the screens the surface is drawn on
    dismissed,    \* Node.dismissed
    displayed, presenting, queued,   \* Presentation's three frames
    presentingIn, \* Node.presenting_in
    registry,     \* Scene.buffers: fresh (never attached), attached, destroyed, none
    deferred,     \* Scene.deferred: releases waiting for frames in flight
    retired,      \* Scene.retired, not yet drained by Compositor::retire
    stored,       \* Peer.buffers and GpuBuffers.buffers: the buffers' memory
    free,         \* what clients were told is theirs: attached, or Released since
    screens,      \* Scene.outputs and Compositor.screens
    inflight,     \* keys of Scene.frames_in_flight
    reads,        \* its values: the surfaces each frame may read
    pending,      \* Screen.pending_flip and pointer_flip
    drawn,        \* the (surface, buffer) pairs the frame handed over composes
    list,         \* frame_list() of the turn
    phase, todo,  \* where Compositor::frame (or an unplug) is, and its screens left
    started       \* the screens whose begin_frame_on moved a frame

nodeVars  == <<nodes, above, output, span, dismissed>>
slots     == <<displayed, presenting, queued, presentingIn>>
bufVars   == <<registry, deferred, retired, stored, free>>
frameVars == <<inflight, reads, pending, drawn>>
turnVars  == <<list, phase, todo, started>>
vars == <<clients, nodeVars, slots, bufVars, screens, frameVars, turnVars>>

OrNone(S) == S \cup {None}
Waiting == [surface : Surfaces, buffer : Buffers, frames : SUBSET Outputs]

TypeOK ==
    /\ clients \in [Clients -> {"new", "connected", "gone"}]
    /\ nodes \subseteq Surfaces
    /\ above \in [Surfaces -> SUBSET Surfaces]
    /\ output \in [Surfaces -> OrNone(Outputs)]
    /\ span \in [Surfaces -> SUBSET Outputs]
    /\ dismissed \in [Surfaces -> BOOLEAN]
    /\ displayed \in [Surfaces -> OrNone(Buffers)]
    /\ presenting \in [Surfaces -> OrNone(Buffers)]
    /\ queued \in [Surfaces -> OrNone(Buffers)]
    /\ presentingIn \in [Surfaces -> OrNone(Outputs)]
    /\ registry \in [Buffers -> {"fresh", "attached", "destroyed", "none"}]
    /\ deferred \subseteq Waiting
    /\ retired \subseteq Buffers
    /\ stored \subseteq Buffers
    /\ free \subseteq Buffers
    /\ screens \subseteq Outputs
    /\ inflight \subseteq Outputs
    /\ reads \in [Outputs -> SUBSET Surfaces]
    /\ pending \in [Outputs -> {"none", "frame", "pointer"}]
    /\ drawn \in [Outputs -> SUBSET (Surfaces \X Buffers)]
    /\ list \subseteq Surfaces \X Buffers
    /\ phase \in {"idle", "begin", "compose", "unplug"}
    /\ todo \subseteq Outputs
    /\ started \subseteq Outputs

Init ==
    /\ clients = [c \in Clients |-> "new"]
    /\ nodes = {}
    /\ above = [s \in Surfaces |-> {}]
    /\ output = [s \in Surfaces |-> None]
    /\ span = [s \in Surfaces |-> {}]
    /\ dismissed = [s \in Surfaces |-> FALSE]
    /\ displayed = [s \in Surfaces |-> None]
    /\ presenting = [s \in Surfaces |-> None]
    /\ queued = [s \in Surfaces |-> None]
    /\ presentingIn = [s \in Surfaces |-> None]
    /\ registry = [b \in Buffers |-> "fresh"]
    /\ deferred = {} /\ retired = {} /\ stored = {} /\ free = {}
    /\ screens = Outputs
    /\ inflight = {}
    /\ reads = [o \in Outputs |-> {}]
    /\ pending = [o \in Outputs |-> "none"]
    /\ drawn = [o \in Outputs |-> {}]
    /\ list = {} /\ phase = "idle" /\ todo = {} /\ started = {}

-----------------------------------------------------------------------------
(* Holding and letting go.                                                   *)

\* Presentation::held_buffers.
Held(s) == {displayed[s], presenting[s], queued[s]} \ {None}

HeldBy(S) == UNION {Held(s) : s \in S}

\* What every surface of S holds, as (surface, buffer) pairs: what
\* Presentation::take_all hands to Scene::release_all.
HeldPairs(S) == UNION {{s} \X Held(s) : s \in S}

Below(s) == {t \in nodes : s \in above[t]}

DeferredBuffers == {d.buffer : d \in deferred}

\* A mistake: no frame is waited for.
ReadingNone(s, F) == {}
\* The frames of F that may read surface s (Scene::release).
Reading(s, F) == {o \in F : s \in reads[o]}

\* Scene::release of every pair of R while the frames F are in flight, once the
\* surfaces hold what they will; with the deferred releases no frame of F holds
\* back any more, as Scene::end settles them.  A release with no frame to wait
\* for is release_now: the client is told, and a destroyed buffer nothing
\* refers to is retired.  `given` is the buffer the request took from its
\* client; with `drain` the handler ends in Compositor::retire, which drops the
\* memory of what was retired.
Release(R, F, given, drain) ==
    LET now     == {r[2] : r \in {q \in R : Reading(q[1], F) = {}}}
        later   == {[surface |-> r[1], buffer |-> r[2], frames |-> Reading(r[1], F)] :
                       r \in {q \in R : Reading(q[1], F) # {}}}
        waiting == deferred \cup later
        over    == {d \in waiting : d.frames \cap F = {}}
        ended   == {d.buffer : d \in over}
        gone    == {b \in now \cup ended :
                       \/ registry[b] = "none"
                       \/ /\ registry[b] = "destroyed"
                          /\ b \notin HeldBy(nodes)'
                          /\ b \in ended \/ b \notin {d.buffer : d \in waiting}}
    IN  /\ deferred' = {[d EXCEPT !.frames = @ \cap F] : d \in waiting \ over}
        /\ registry' = [b \in Buffers |-> IF b \in gone THEN "none" ELSE registry[b]]
        /\ retired' = IF drain THEN {} ELSE retired \cup gone
        /\ stored' = IF drain THEN stored \ (retired \cup gone) ELSE stored
        /\ free' = (free \ given) \cup
                   {b \in now \cup ended : /\ registry[b] = "attached"
                                           /\ clients[ClientOf[b]] = "connected"}

Emptied(f, S) == [s \in Surfaces |-> IF s \in S THEN None ELSE f[s]]

\* The surfaces of S let go of everything (Presentation::take_all).
TakeAll(S) ==
    /\ displayed' = Emptied(displayed, S)
    /\ presenting' = Emptied(presenting, S)
    /\ queued' = Emptied(queued, S)
    /\ presentingIn' = Emptied(presentingIn, S)

\* The surfaces of `out` are dismissed, with everything under them
\* (Scene::dismiss), and those of `asked` are asked for new content, their queued
\* frame discarded (Scene::reconfigure).
Under(S) == UNION {Below(s) : s \in S}
Fallen(out) == out \cup Under(out)
Dropped(asked, out) == {s \in asked \ Fallen(out) : queued[s] # None}

LeaveAndAsk(asked, out) ==
    /\ dismissed' = [s \in Surfaces |-> s \in Fallen(out) \/ dismissed[s]]
    /\ presenting' = Emptied(presenting, Fallen(out))
    /\ presentingIn' = Emptied(presentingIn, Fallen(out))
    /\ queued' = Emptied(queued, Fallen(out) \cup Dropped(asked, out))
    /\ displayed' = Emptied(displayed, Fallen(out))

LetGo(asked, out) ==
    HeldPairs(Fallen(out)) \cup {<<s, queued[s]>> : s \in Dropped(asked, out)}

-----------------------------------------------------------------------------
(* Clients' requests.                                                        *)

Idle == phase = "idle"
Connected(c) == clients[c] = "connected"

Connect(c) ==
    /\ Idle /\ clients[c] = "new"
    /\ clients' = [clients EXCEPT ![c] = "connected"]
    /\ UNCHANGED <<nodeVars, slots, bufVars, screens, frameVars, turnVars>>

\* A new surface on screen o: a root, or a child of a mapped surface p
\* (create_popup, the other Create requests and Scene::insert).  It is drawn on
\* `sp` once it has content.
CreateSurface(s, p, o, sp) ==
    /\ Idle /\ Connected(ClientOf[s]) /\ s \notin nodes
    /\ o \in screens
    /\ p # None => /\ p \in nodes /\ ~dismissed[p] /\ displayed[p] # None
                   /\ ClientOf[p] = ClientOf[s]
    /\ nodes' = nodes \cup {s}
    /\ above' = [above EXCEPT ![s] = IF p = None THEN {} ELSE {p} \cup above[p]]
    /\ output' = [output EXCEPT ![s] = o]
    /\ span' = [span EXCEPT ![s] = sp]
    /\ dismissed' = [dismissed EXCEPT ![s] = FALSE]
    /\ UNCHANGED <<clients, slots, bufVars, screens, frameVars, turnVars>>

\* Request::Destroy: remove_node dismisses and orphans what is under the surface.
Destroy(s) ==
    LET letGo == {s} \cup Below(s) IN
    /\ Idle /\ s \in nodes /\ Connected(ClientOf[s])
    /\ nodes' = nodes \ {s}
    /\ above' = [t \in Surfaces |-> IF t = s THEN {}
                                    ELSE IF t \in Below(s) THEN above[t] \ ({s} \cup above[s])
                                    ELSE above[t]]
    /\ dismissed' = [t \in Surfaces |-> t # s /\ (t \in Below(s) \/ dismissed[t])]
    /\ output' = [output EXCEPT ![s] = None]
    /\ span' = [span EXCEPT ![s] = {}]
    /\ TakeAll(letGo)
    /\ Release(HeldPairs(letGo), inflight, {}, TRUE)
    /\ UNCHANGED <<clients, screens, frameVars, turnVars>>

\* Request::AttachBuffer and Request::AttachDmabuf (`gpu`), within the quota:
\* check_new_buffer wants an id the client has no buffer by.  Only the handler
\* of a GPU buffer ends in Compositor::retire.
Attach(b, gpu) ==
    /\ Idle /\ Connected(ClientOf[b])
    /\ registry[b] = "fresh" \/ (registry[b] = "none" /\ ClientOf[b] \notin Careful)
    /\ registry' = [registry EXCEPT ![b] = "attached"]
    /\ free' = free \cup {b}
    /\ stored' = (stored \cup {b}) \ (IF gpu THEN retired ELSE {})
    /\ retired' = IF gpu THEN {} ELSE retired
    /\ UNCHANGED <<clients, nodeVars, slots, deferred, screens, frameVars, turnVars>>

\* Request::DestroyBuffer: retired at once unless something refers to it.
DestroyBuffer(b) ==
    LET used == b \in HeldBy(nodes) \cup DeferredBuffers IN
    /\ Idle /\ Connected(ClientOf[b]) /\ registry[b] = "attached"
    /\ registry' = [registry EXCEPT ![b] = IF used THEN "destroyed" ELSE "none"]
    /\ free' = free \ {b}
    /\ stored' = stored \ (retired \cup (IF used THEN {} ELSE {b}))
    /\ retired' = {}
    /\ UNCHANGED <<clients, nodeVars, slots, deferred, screens, frameVars, turnVars>>

\* Scene::submit's own checks; a frame that fails one ends its client.
MaySubmit(s, b) ==
    /\ Idle /\ s \in nodes /\ ClientOf[b] = ClientOf[s] /\ Connected(ClientOf[s])
    /\ registry[b] = "attached"
    /\ b \notin DeferredBuffers
    /\ b \notin HeldBy(nodes \ {s})
    /\ ClientOf[b] \in Careful => b \in free

\* The frame a new one replaces.
Superseded(s) == {s} \X ({queued[s]} \ {None})

\* A frame for the current configure: it replaces the one queued, discarded.
Submit(s, b) ==
    /\ MaySubmit(s, b) /\ ~dismissed[s]
    /\ b \notin Held(s)
    /\ queued' = [queued EXCEPT ![s] = b]
    /\ UNCHANGED <<clients, nodeVars, displayed, presenting, presentingIn,
                   screens, frameVars, turnVars>>
    /\ Release(Superseded(s), inflight, {b}, TRUE)

\* A frame for a configure replaced since, or of a dismissed surface: discarded.
\* Presentation::submit refuses a stale frame before it looks at what is held.
SubmitDiscarded(s, b) ==
    /\ MaySubmit(s, b)
    /\ UNCHANGED <<clients, nodeVars, slots, screens, frameVars, turnVars>>
    /\ Release({<<s, b>>}, inflight, {b}, TRUE)

\* Compositor::disconnect: Goodbye, a closed connection or a request refused.
\* The client's memory goes with its peer; buffers frames still read are retired
\* when those end.
Disconnect(c) ==
    LET mine == {s \in nodes : ClientOf[s] = c}
        own  == {b \in Buffers : ClientOf[b] = c}
        later == {[surface |-> r[1], buffer |-> r[2], frames |-> Reading(r[1], inflight)] :
                     r \in {q \in HeldPairs(mine) : Reading(q[1], inflight) # {}}}
    IN
    /\ Idle /\ Connected(c)
    /\ clients' = [clients EXCEPT ![c] = "gone"]
    /\ nodes' = nodes \ mine
    /\ above' = [s \in Surfaces |-> IF s \in mine THEN {} ELSE above[s]]
    /\ output' = [s \in Surfaces |-> IF s \in mine THEN None ELSE output[s]]
    /\ span' = [s \in Surfaces |-> IF s \in mine THEN {} ELSE span[s]]
    /\ dismissed' = [s \in Surfaces |-> s \notin mine /\ dismissed[s]]
    /\ TakeAll(mine)
    /\ deferred' = deferred \cup later
    /\ registry' = [b \in Buffers |-> IF b \in own THEN "none" ELSE registry[b]]
    /\ stored' = stored \ (own \cup retired)
    /\ retired' = {}
    /\ free' = free \ own
    /\ UNCHANGED <<screens, frameVars, turnVars>>

\* Any other request: Compositor::receive ends in retire.
OtherRequest ==
    /\ Idle /\ retired # {}
    /\ stored' = stored \ retired
    /\ retired' = {}
    /\ UNCHANGED <<clients, nodeVars, slots, registry, deferred, free, screens,
                   frameVars, turnVars>>

-----------------------------------------------------------------------------
(* What the compositor does to surfaces: input, moves and resizes.           *)

\* Scene::dismiss (a press outside, Escape, the lock, a grab denied): the surface
\* and everything under it is let go, and stays inert until it is destroyed.
Dismiss(s) ==
    /\ Idle /\ s \in nodes \ Windows /\ ~dismissed[s]
    /\ LeaveAndAsk({}, {s})
    /\ UNCHANGED <<clients, nodes, above, output, span, screens, frameVars, turnVars>>
    /\ Release(LetGo({}, {s}), inflight, {}, FALSE)

\* Surface s is moved, resized, hidden or shown: it and its children are asked
\* for new content where their size or scale changed, follow it to another
\* screen, or cannot be placed and are dismissed (reconstrain_children).
Rearrange(s, asked, out, at, sp) ==
    /\ Idle /\ s \in nodes /\ ~dismissed[s]
    /\ asked \subseteq {s} \cup Below(s)
    /\ out \subseteq Below(s) \ Windows
    /\ at \in screens
    /\ output' = [t \in Surfaces |-> IF t \in {s} \cup Below(s) THEN at ELSE output[t]]
    /\ span' = [t \in Surfaces |-> IF t \in {s} \cup Below(s) THEN sp ELSE span[t]]
    /\ LeaveAndAsk(asked, out)
    /\ UNCHANGED <<clients, nodes, above, screens, frameVars, turnVars>>
    /\ Release(LetGo(asked, out), inflight, {}, FALSE)

-----------------------------------------------------------------------------
(* A turn of the compositor: Compositor::frame.                              *)

Ready == {o \in screens : pending[o] = "none"}

\* What a surface shows in the frame being composed (Node::view, in flight).
View(s) == IF presenting[s] # None THEN presenting[s] ELSE displayed[s]

\* visible_in(key, true): it and its ancestors have content and none is dismissed.
Visible(s) == \A t \in {s} \cup above[s] : ~dismissed[t] /\ View(t) # None

\* The screens with no frame on its way begin one each.
StartFrame ==
    /\ Idle /\ Ready # {}
    /\ phase' = "begin" /\ todo' = Ready /\ started' = {}
    /\ UNCHANGED <<clients, nodeVars, slots, bufVars, screens, frameVars, list>>

\* The surfaces whose queued frame starts in screen o's frame; a mistake leaves out
\* those that show nothing yet.
StartingMapped(o) == {s \in nodes : /\ output[s] = o /\ presenting[s] = None
                                    /\ queued[s] # None /\ displayed[s] # None}
Starting(o) == {s \in nodes : output[s] = o /\ presenting[s] = None /\ queued[s] # None}

\* The surfaces screen o's frame may read, as they are once it has begun.
ReadBy(o) == {s \in nodes : Visible(s)' /\ o \in span'[s]}

\* Scene::begin(Some(o)): the queued frames of the surfaces on the output start
\* presenting, each with the geometry it was drawn for, and the frame may read
\* the surfaces shown there now.
BeginFrameOn(o, sp) ==
    LET starting == Starting(o) IN
    /\ phase = "begin" /\ o \in todo
    /\ presenting' = [s \in Surfaces |-> IF s \in starting THEN queued[s] ELSE presenting[s]]
    /\ presentingIn' = [s \in Surfaces |-> IF s \in starting THEN o ELSE presentingIn[s]]
    /\ queued' = Emptied(queued, starting)
    /\ span' = [s \in Surfaces |-> IF s \in starting THEN sp[s] ELSE span[s]]
    /\ UNCHANGED <<clients, nodes, above, output, dismissed, displayed>>
    /\ reads' = [reads EXCEPT ![o] = ReadBy(o)]
    /\ inflight' = inflight \cup {o}
    /\ started' = IF starting = {} THEN started ELSE started \cup {o}
    /\ todo' = todo \ {o}
    /\ UNCHANGED <<bufVars, screens, pending, drawn, list, phase>>

\* frame_list(), once every ready screen's frame has begun: what they all draw.
TakeFrameList ==
    /\ phase = "begin" /\ todo = {}
    /\ list' = {<<s, View(s)>> : s \in {t \in nodes : Visible(t)}}
    /\ phase' = "compose" /\ todo' = Ready
    /\ UNCHANGED <<clients, nodeVars, slots, bufVars, screens, frameVars, started>>

\* Scene::end(Some(o)): what presented in the frame is displayed, what it
\* replaced is released, and so are the releases that waited for it alone.  A
\* surface whose new geometry is shown may be asked for the next one (`asked`:
\* an edge resize going on, its children placed again) and its children may no
\* longer fit (`out`).
EndFrameOn(o, asked, out, drain) ==
    LET shown == {s \in nodes : presenting[s] # None /\ presentingIn[s] = o}
        old   == {<<s, displayed[s]>> : s \in {t \in shown : displayed[t] # None}}
    IN
    /\ asked \subseteq shown \cup Under(shown)
    /\ out \subseteq Under(shown) \ Windows
    /\ displayed' = [s \in Surfaces |-> IF s \in Fallen(out) THEN None
                                        ELSE IF s \in shown THEN presenting[s]
                                        ELSE displayed[s]]
    /\ presenting' = Emptied(presenting, shown \cup Fallen(out))
    /\ presentingIn' = Emptied(presentingIn, shown \cup Fallen(out))
    /\ queued' = Emptied(queued, Fallen(out) \cup Dropped(asked, out))
    /\ dismissed' = [s \in Surfaces |-> s \in Fallen(out) \/ dismissed[s]]
    /\ inflight' = inflight \ {o}
    /\ reads' = [reads EXCEPT ![o] = {}]
    /\ drawn' = [drawn EXCEPT ![o] = {}]
    /\ UNCHANGED <<clients, nodes, above, output, span, screens>>
    /\ Release(old \cup LetGo(asked, out), inflight', {}, drain)

\* Screen o's part of the turn is over; the turn, with the last screen's.
NextScreen(o) ==
    /\ todo' = todo \ {o}
    /\ phase' = IF todo = {o} THEN "idle" ELSE "compose"
    /\ list' = IF todo = {o} THEN {} ELSE list
    /\ started' = IF todo = {o} THEN {} ELSE started

\* Nothing of the screen changed: its frame completes now, and a pointer that
\* moved may be flipped to by itself.
ComposeNothing(o, asked, out, flip) ==
    /\ phase = "compose" /\ o \in todo /\ o \notin started
    /\ flip \in {"none", "pointer"}
    /\ EndFrameOn(o, asked, out, FALSE)
    /\ pending' = [pending EXCEPT ![o] = flip]
    /\ NextScreen(o)

\* Composed, and handed to the display (or paced): it completes at its flip.
ComposeAndFlip(o) ==
    /\ phase = "compose" /\ o \in todo
    /\ pending' = [pending EXCEPT ![o] = "frame"]
    /\ drawn' = [drawn EXCEPT ![o] = {p \in list : o \in span[p[1]]}]
    /\ NextScreen(o)
    /\ UNCHANGED <<clients, nodeVars, slots, bufVars, screens, inflight, reads>>

\* Composed with no display to hand it to: it completes at once.
ComposeAtOnce(o, asked, out) ==
    /\ phase = "compose" /\ o \in todo
    /\ EndFrameOn(o, asked, out, TRUE)
    /\ NextScreen(o)
    /\ UNCHANGED pending

\* Compositor::complete_flip: shown, failed or never flipped, the frame ends.
CompleteFlip(o, asked, out) ==
    /\ Idle /\ pending[o] = "frame"
    /\ pending' = [pending EXCEPT ![o] = "none"]
    /\ EndFrameOn(o, asked, out, TRUE)
    /\ UNCHANGED turnVars

CompletePointerFlip(o) ==
    /\ Idle /\ pending[o] = "pointer"
    /\ pending' = [pending EXCEPT ![o] = "none"]
    /\ UNCHANGED <<clients, nodeVars, slots, bufVars, screens, inflight, reads, drawn, turnVars>>

-----------------------------------------------------------------------------
(* Displays coming and going.                                                *)

\* Whether an unplugged screen has a frame to end; a mistake forgets it.
FrameForgotten(o) == FALSE
FrameOnItsWay(o) == pending[o] = "frame"

\* Compositor::remove_output, its first half, detach_display: the frame on its
\* way ends unshown.
DetachDisplay(o, asked, out) ==
    /\ Idle /\ o \in screens
    /\ phase' = "unplug" /\ todo' = {o}
    /\ pending' = [pending EXCEPT ![o] = "none"]
    /\ IF FrameOnItsWay(o)
       THEN EndFrameOn(o, asked, out, TRUE)
       ELSE /\ asked = {} /\ out = {}
            /\ stored' = stored \ retired /\ retired' = {}
            /\ UNCHANGED <<clients, nodeVars, slots, registry, deferred, free, screens,
                           inflight, reads, drawn>>
    /\ UNCHANGED <<list, started>>

\* Where the windows that move are drawn, nowhere when there is no screen left.
DrawnAt(target) == {target} \ {None}

\* The other half, Scene::remove_output: what is on the output is dismissed, its
\* windows go to another screen, are asked for new content there and their
\* children placed again.
RemoveOutput(o, target, asked, out) ==
    LET here  == {s \in nodes : output[s] = o /\ ~dismissed[s]}
        moved == (here \cap Windows) \ Under(here \ Windows)
    IN
    /\ phase = "unplug" /\ todo = {o}
    /\ \/ /\ target \in screens \ {o}
          /\ moved \subseteq asked
       \/ /\ screens = {o} /\ target = None
          /\ asked = {} /\ out \subseteq here
    /\ asked \subseteq moved \cup Under(moved)
    /\ here \ Windows \subseteq out
    /\ out \subseteq (here \cup Under(moved)) \ Windows
    /\ screens' = screens \ {o}
    /\ output' = [s \in Surfaces |-> IF s \in moved /\ target # None THEN target ELSE output[s]]
    /\ span' = [s \in Surfaces |-> IF s \in moved THEN DrawnAt(target) ELSE span[s] \ {o}]
    /\ phase' = "idle" /\ todo' = {}
    /\ LeaveAndAsk(asked, out)
    /\ UNCHANGED <<clients, nodes, above, frameVars, list, started>>
    /\ Release(LetGo(asked, out), inflight, {}, TRUE)

\* Scene::add_output: windows left on no output come to it.
AddOutput(o) ==
    LET orphans == {s \in nodes \cap Windows : /\ ~dismissed[s] /\ above[s] = {}
                                               /\ output[s] \notin screens \cup {o}}
    IN
    /\ Idle /\ o \notin screens
    /\ screens' = screens \cup {o}
    /\ output' = [s \in Surfaces |-> IF s \in orphans THEN o ELSE output[s]]
    /\ span' = [s \in Surfaces |-> IF s \in orphans \/ output[s] = o THEN {o} ELSE span[s]]
    /\ LeaveAndAsk(orphans, {})
    /\ UNCHANGED <<clients, nodes, above, frameVars, turnVars>>
    /\ Release(LetGo(orphans, {}), inflight, {}, FALSE)

-----------------------------------------------------------------------------
Requests ==
    \/ \E c \in Clients : Connect(c) \/ Disconnect(c)
    \/ \E s \in Surfaces : \/ \E p \in OrNone(Surfaces), o \in Outputs, sp \in Spans :
                                 CreateSurface(s, p, o, sp)
                           \/ Destroy(s)
                           \/ \E b \in Buffers : Submit(s, b) \/ SubmitDiscarded(s, b)
    \/ \E b \in Buffers : \/ \E gpu \in BOOLEAN : Attach(b, gpu)
                          \/ DestroyBuffer(b)
    \/ OtherRequest

Policy ==
    \E s \in Surfaces : \/ Dismiss(s)
                        \/ \E asked, out \in SUBSET Surfaces, at \in Outputs, sp \in Spans :
                              Rearrange(s, asked, out, at, sp)

Flip(o) == \/ \E asked, out \in SUBSET Surfaces : CompleteFlip(o, asked, out)
           \/ CompletePointerFlip(o)

Turn == \/ StartFrame
        \/ TakeFrameList
        \/ \E o \in Outputs :
             \/ \E sp \in [Surfaces -> Spans] : BeginFrameOn(o, sp)
             \/ ComposeAndFlip(o)
             \/ \E asked, out \in SUBSET Surfaces :
                   \/ \E flip \in {"none", "pointer"} : ComposeNothing(o, asked, out, flip)
                   \/ ComposeAtOnce(o, asked, out)

Hotplug ==
    \E o \in Outputs : \/ \E asked, out \in SUBSET Surfaces : DetachDisplay(o, asked, out)
                       \/ \E target \in OrNone(Outputs), asked, out \in SUBSET Surfaces :
                             RemoveOutput(o, target, asked, out)
                       \/ AddOutput(o)

Next == Requests \/ Policy \/ Turn \/ Hotplug \/ \E o \in Outputs : Flip(o)

Spec == Init /\ [][Next]_vars

\* Every turn of the loop, whatever else it did, ends in Compositor::frame and
\* reads the flips that completed: a commit the card took flips, or the display
\* is turned off and its frame ends unshown.  A turn begun is straight-line code.
Fairness == /\ SF_vars(StartFrame)
            /\ WF_vars(Turn)
            /\ WF_vars(\E o \in Outputs, target \in OrNone(Outputs), asked, out \in SUBSET Surfaces :
                          RemoveOutput(o, target, asked, out))
            /\ \A o \in Outputs : SF_vars(Flip(o))

LiveSpec == Spec /\ Fairness

-----------------------------------------------------------------------------
(* Properties.                                                               *)

Registered(b) == registry[b] \in {"attached", "destroyed"}

\* The places a buffer is: its client's, a slot of a surface, or a release waiting.
Places(b) ==
    (IF b \in free THEN {"client"} ELSE {})
      \cup {<<"displayed", s>> : s \in {t \in Surfaces : displayed[t] = b}}
      \cup {<<"presenting", s>> : s \in {t \in Surfaces : presenting[t] = b}}
      \cup {<<"queued", s>> : s \in {t \in Surfaces : queued[t] = b}}
      \cup {d \in deferred : d.buffer = b}

\* Every registered buffer of a careful client is in exactly one place: the
\* client may draw into it, one surface holds it once, or its release waits.  A
\* second place would let the client draw over what is shown; none would lose
\* the buffer for ever (Scene::submit, release, release_now, end).
BufferInOnePlace ==
    \A b \in Buffers :
        ClientOf[b] \in Careful /\ Registered(b) => Cardinality(Places(b)) = 1

\* While a frame is on its way to its display, no buffer it composes of the
\* surfaces the scene counted as read is the client's to draw into or has lost
\* its memory (Scene::release, deferred, Compositor::retire).
ReadBuffersKept ==
    \A o \in Outputs : \A p \in drawn[o] :
        ClientOf[p[2]] \in Careful /\ Connected(ClientOf[p[2]]) /\ p[1] \in reads[o]
            => p[2] \notin free /\ p[2] \in stored

\* The same of everything the frame composes: "the surfaces whose buffers each
\* may read (those shown on its output ...)" (Scene.frames_in_flight).
DrawnBuffersKept ==
    \A o \in Outputs : \A p \in drawn[o] :
        ClientOf[p[2]] \in Careful /\ Connected(ClientOf[p[2]])
            => p[2] \notin free /\ p[2] \in stored

\* A buffer the client is told is its own is not one on screen or on its way:
\* "displayed/in-flight buffers cannot be reused until all GPU/output consumers
\* have finished" (docs/native-architecture.mdx).
ShownNotReleased ==
    \A b \in free, s \in Surfaces : displayed[s] # b /\ presenting[s] # b

\* A buffer the scene knows has its memory: retiring one never takes the memory
\* of another attached under the same id (Scene.retired, Compositor::retire).
RegisteredHasMemory == \A b \in Buffers : Registered(b) => b \in stored

\* Nothing waits for a frame that will never end: what is presenting is in a
\* frame in flight, a deferred release waits for frames in flight, and between
\* turns each of those has its flip on the way, on a screen there is.
NothingStranded ==
    /\ \A s \in Surfaces : presenting[s] # None => presentingIn[s] \in inflight
    /\ \A d \in deferred : d.frames # {} /\ d.frames \subseteq inflight
    /\ Idle => inflight = {o \in screens : pending[o] = "frame"}
    /\ \A o \in Outputs \ screens : pending[o] = "none"

\* A release deferred goes through: the client gets its buffer back.
DeferredGoes ==
    \A b \in Buffers : b \in DeferredBuffers ~> b \notin DeferredBuffers

\* A frame queued leaves the queue (presented, superseded or discarded) unless its
\* surface goes to another screen or its screen is unplugged: it is never
\* forgotten, however the screens' flips interleave.
QueuedGoes ==
    \A s \in Surfaces, b \in Buffers, o \in Outputs :
        queued[s] = b /\ output[s] = o /\ o \in screens
            ~> queued[s] # b \/ output[s] # o \/ o \notin screens

\* What the scene keeps of buffers: one place each, never the client's while read
\* or shown, and their memory.
BuffersKept == BufferInOnePlace /\ ReadBuffersKept /\ DrawnBuffersKept /\ RegisteredHasMemory

\* What waits for a frame goes: releases deferred, and frames queued.
FramesGo == DeferredGoes /\ QueuedGoes
=============================================================================
