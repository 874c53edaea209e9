------------------------------ MODULE GpuSync ------------------------------
(***************************************************************************)
(* A client's GPU buffers: explicit synchronisation, their release and     *)
(* direct scanout (crates/oxyos-compositor/src/gpu_buffers.rs, scanout.rs, *)
(* crates/oxyos-gpu/src/vulkan.rs, vulkan/import.rs).                      *)
(*                                                                         *)
(* A frame of a GPU buffer may name an acquire point, which the client's   *)
(* GPU signals when it has drawn it, and a release point, which the        *)
(* compositor signals once nothing reads the buffer.  A frame waits        *)
(* outside the scene for its acquire point; the Released event of a frame  *)
(* the scene let go waits until no transition, no plane of the display and *)
(* no submission of the compositor's queue uses the buffer.                *)
(*                                                                         *)
(* Abstractions.  One client, one display.  Each buffer has a timeline of  *)
(* its own, whose points alternate, as the protocol asks of clients, so a  *)
(* frame's points are signalled or not.  A refused request disconnects the *)
(* client (Disconnect).  The scene is the place of each frame in it        *)
(* (module SceneFrames has its rules).  The compositor composes on the GPU.*)
(***************************************************************************)
EXTENDS Naturals, Sequences, FiniteSets

CONSTANTS Surfaces, Buffers,
          MaxFrames,   \* bound: the frames the client submits
          SyncFiles,   \* whether the device exports a submission's completion
          Syncs,       \* which points a frame names: sets of "acquire", "release"
          Destroys,    \* whether the client destroys buffers
          Transitions, \* whether transitions draw copies of windows
          OverDirect,  \* whether a window goes on the overlay plane alone over
                       \* another's buffer on the primary plane
          None

BoundAssumption == MaxFrames \in Nat \ {0}
FlagAssumption  == {SyncFiles, Destroys, Transitions, OverDirect} \subseteq BOOLEAN
SyncAssumption  == Syncs \subseteq SUBSET {"acquire", "release"} /\ Syncs # {}
NoneAssumption  == None \notin Buffers

VARIABLES
    client,     \* whether the client is connected
    surfaces,   \* its surfaces
    frames,     \* the frames submitted, oldest first
    stage,      \* where each frame is
    acquired,   \* frames whose acquire point has signalled
    signalled,  \* frames whose release point has signalled
    buffers,    \* GpuBuffers.buffers and failed: fresh, made, failed or gone
    destroyed,  \* buffers the client destroyed
    releases,   \* GpuBuffers.releases: the frame whose release point each buffer keeps
    after,      \* GpuBuffers.after_acquire: release points waiting for acquire points
    fenced,     \* release points given the completion of the submission in flight
    orphans,    \* GpuBuffers.orphans
    gpu,        \* the compositor's queue: Images' imports, held, releases, reading, forgotten
    kept,       \* buffers a transition draws (clones of Buffer.uses)
    direct,     \* Screen.display, pending_flip and Direct's next and shown
    planes      \* the display's: the primary plane's buffer as last committed (None: a
                \* composed frame), what the planes scan out, and will from the next flip

clientVars == <<client, surfaces, frames, acquired>>
pointVars == <<signalled, releases, after, fenced>>
bufferVars == <<buffers, destroyed, orphans>>
vars == <<clientVars, stage, pointVars, bufferVars, gpu, kept, direct, planes>>

Frames == 1..Len(frames)
InScene == {"queued", "current", "deferred"}
Stages == InScene \cup {"waiting", "event", "held", "told"}

TypeOK ==
    /\ client \in BOOLEAN /\ surfaces \subseteq Surfaces
    /\ frames \in Seq([surface : Surfaces, buffer : Buffers, sync : Syncs])
    /\ Len(frames) <= MaxFrames
    /\ stage \in [Frames -> Stages]
    /\ acquired \subseteq Frames /\ signalled \subseteq Frames
    /\ buffers \in [Buffers -> {"fresh", "made", "failed", "gone"}]
    /\ destroyed \subseteq Buffers /\ orphans \subseteq Buffers /\ kept \subseteq Buffers
    /\ releases \in [Buffers -> Frames \cup {0}]
    /\ after \subseteq Frames /\ fenced \subseteq Frames
    /\ gpu \in [imports : SUBSET Buffers, held : SUBSET Buffers, asked : SUBSET Buffers,
                reading : SUBSET Buffers, forgotten : SUBSET Buffers,
                flight : {"none", "running", "done"}]
    /\ direct \in [on : BOOLEAN, pending : BOOLEAN,
                   next : Buffers \cup {None}, shown : Buffers \cup {None}]
    /\ planes \in [primary : Buffers \cup {None}, scan : SUBSET Buffers, coming : SUBSET Buffers]

Init ==
    /\ client = TRUE /\ surfaces = Surfaces /\ frames = <<>> /\ stage = <<>>
    /\ acquired = {} /\ signalled = {} /\ after = {} /\ fenced = {}
    /\ buffers = [b \in Buffers |-> "fresh"] /\ destroyed = {} /\ orphans = {}
    /\ releases = [b \in Buffers |-> 0]
    /\ gpu = [imports |-> {}, held |-> {}, asked |-> {}, reading |-> {}, forgotten |-> {},
              flight |-> "none"]
    /\ kept = {} /\ direct = [on |-> TRUE, pending |-> FALSE, next |-> None, shown |-> None]
    /\ planes = [primary |-> None, scan |-> {}, coming |-> {}]

----------------------------------------------------------------------------
(* Frames and buffers *)

At(where) == {n \in Frames : stage[n] \in where}
OfBuffer(b) == {n \in Frames : frames[n].buffer = b}
BuffersOf(N) == {frames[n].buffer : n \in N}
OnSurface(N, s) == {n \in N : frames[n].surface = s}
Last(b) == IF OfBuffer(b) = {} THEN 0
           ELSE CHOOSE n \in OfBuffer(b) : \A m \in OfBuffer(b) : m <= n
Made == {b \in Buffers : buffers[b] = "made"}
Moved(N, to) == [n \in Frames |-> IF n \in N THEN to ELSE stage[n]]

\* What the client's GPU waits for before it draws into a buffer again: the
\* release point of the buffer's last frame, when it named one.
Released(n) ==
    n # 0 => (stage[n] = "told" /\ ("release" \in frames[n].sync => n \in signalled))

----------------------------------------------------------------------------
(* The compositor's queue *)

\* forget_dma_buf: an import read by the frame in flight goes once it is done.
Forget(g, B) ==
    [g EXCEPT !.forgotten = @ \cup (B \cap g.reading),
              !.imports = @ \ (B \ g.reading),
              !.held    = @ \ (B \ g.reading),
              !.asked   = @ \ (B \ g.reading)]

\* complete, finish_reading: the submission in flight is done.
Finished(g) ==
    LET done == [g EXCEPT !.flight = "none", !.reading = {}, !.forgotten = {}]
    IN  Forget(done, g.forgotten)

\* poll_completion: finished when the fence says so, never waiting.
Polled(g) == IF g.flight = "done" THEN Finished(g) ELSE g

\* run, handovers, handed_over: a composition sampling B, which acquires what
\* the queue does not hold and releases what was let go and is not sampled.
Composed(g, B) ==
    LET slots == B \cap g.imports
        releasing == (g.asked \cap g.held) \ slots
        sent == [g EXCEPT !.held = (@ \cup slots) \ releasing,
                          !.asked = @ \ releasing,
                          !.reading = slots \cup releasing,
                          !.flight = "running"]
    IN  IF SyncFiles THEN sent ELSE Finished(sent)

\* submit_releases: what was let go, when no composition carried it and
\* nothing is in flight.
SubmitReleases(g) ==
    LET idle == Polled(g)
        pending == g.asked \cap g.held
    IN  IF pending = {} THEN g
        ELSE IF idle.flight = "running" THEN idle
        ELSE [idle EXCEPT !.held = @ \ pending, !.asked = @ \ pending,
                          !.reading = pending, !.flight = "running"]

\* The buffers something besides GpuBuffers references (Rc::strong_count > 1).
Uses(k, d) == k \cup ({d.next, d.shown} \ {None})

\* collect_orphans: imports of buffers gone that nothing draws any more.
Collected(O, k, d) == {b \in O : b \notin Uses(k, d)}

----------------------------------------------------------------------------
(* Releasing a buffer *)

\* release_gpu_buffer: whether the Released event of frame n goes now.
Goes(n, g) ==
    LET b == frames[n].buffer
    IN  \/ b \notin Made
        \/ /\ b \notin Uses(kept, direct)
           /\ b \notin g.held
           /\ b \in g.reading => (releases[b] # 0 /\ SyncFiles)

\* The same function asks for what the queue still holds to be released.
AskedFor(N, g) == {b \in BuffersOf(N) \cap Made : b \notin Uses(kept, direct) /\ b \in g.held}

\* Release points given the completion of the submission in flight.
Fenced(N, g) ==
    {releases[frames[n].buffer] : n \in {m \in N : /\ frames[m].buffer \in Made \cap g.reading
                                                   /\ g.flight = "running"}} \ {0}

\* Release points signalled from the CPU.
SignalledNow(N, g) ==
    {releases[frames[n].buffer] : n \in {m \in N : frames[m].buffer \in Made}}
        \ (Fenced(N, g) \cup {0})

\* The Released events N tried with the queue at g: what goes, what is held.
TryReleases(N, g) ==
    LET going == {n \in N : Goes(n, g)}
        let == BuffersOf(going) \cap Made
    IN  /\ stage' = [n \in Frames |-> IF n \in going THEN "told"
                                      ELSE IF n \in N THEN "held" ELSE stage[n]]
        /\ fenced' = fenced \cup Fenced(going, g)
        /\ signalled' = signalled \cup SignalledNow(going, g)
        /\ releases' = [b \in Buffers |-> IF b \in let THEN 0 ELSE releases[b]]

\* supersede: waiting frames discarded; their buffers are released at once and
\* their release points signal after their acquire points.
Supersede(N) ==
    LET points == {releases[b] : b \in BuffersOf(N)} \ {0}
    IN  /\ after' = after \cup points
        /\ releases' = [b \in Buffers |-> IF b \in BuffersOf(N) THEN 0 ELSE releases[b]]
        /\ UNCHANGED <<signalled, fenced>>

\* retire, retire_gpu_buffer: destroyed buffers no frame of the scene holds
\* leave GpuBuffers; their imports go once nothing draws them.
Retire(held, gone, g) ==
    LET leaving == (gone \ held) \cap Made
        lost == Collected(orphans \cup leaving, kept, direct)
    IN  IF leaving = {} THEN gpu' = g /\ UNCHANGED <<buffers, orphans>>
        ELSE /\ buffers' = [b \in Buffers |-> IF b \in leaving THEN "gone" ELSE buffers[b]]
             /\ orphans' = (orphans \cup leaving) \ lost
             /\ gpu' = Forget(g, lost)

----------------------------------------------------------------------------
(* The client's requests *)

\* AttachDmabufPlane, AttachDmabuf: imported, or told BufferFailed.
Attach(b, made) ==
    /\ client /\ buffers[b] = "fresh"
    /\ buffers' = [buffers EXCEPT ![b] = IF made THEN "made" ELSE "failed"]
    /\ gpu' = IF made THEN [gpu EXCEPT !.imports = @ \cup {b}] ELSE gpu
    /\ UNCHANGED <<clientVars, stage, pointVars, destroyed, orphans, kept, direct, planes>>

\* The buffer is the client's to submit: attached, and its last frame Released.
\* Without an acquire point the client has drawn it already.
MaySubmit(s, b, sync, drawn) ==
    /\ client /\ s \in surfaces /\ b \notin destroyed /\ Len(frames) < MaxFrames
    /\ Last(b) # 0 => stage[Last(b)] = "told"
    /\ "acquire" \notin sync => drawn
    /\ drawn => Released(Last(b))

\* Whether a frame is held for its acquire point.
Waits(sync, drawn) == "acquire" \in sync /\ ~drawn

\* SetSync and Submit of a GPU buffer: any frame supersedes the surface's one
\* still waiting; the frame waits for its acquire point, or goes to the scene,
\* where it replaces the surface's queued frame.
Submit(s, b, sync, drawn) ==
    LET n == Len(frames) + 1
        old == OnSurface(At({"waiting"}), s)
        replaced == IF Waits(sync, drawn) THEN {} ELSE OnSurface(At({"queued"}), s)
        given == IF replaced # {} /\ direct.pending THEN "deferred" ELSE "event"
        points == {releases[c] : c \in BuffersOf(old)} \ {0}
    IN  /\ buffers[b] = "made" /\ MaySubmit(s, b, sync, drawn)
        /\ frames' = Append(frames, [surface |-> s, buffer |-> b, sync |-> sync])
        /\ acquired' = IF drawn THEN acquired \cup {n} ELSE acquired
        /\ stage' = [m \in 1..n |-> IF m = n THEN IF Waits(sync, drawn) THEN "waiting" ELSE "queued"
                                    ELSE IF m \in old THEN "told"
                                    ELSE IF m \in replaced THEN given ELSE stage[m]]
        /\ after' = after \cup points
        /\ releases' = [c \in Buffers |-> IF c = b THEN IF "release" \in sync THEN n ELSE releases[c]
                                          ELSE IF c \in BuffersOf(old) THEN 0 ELSE releases[c]]
        /\ UNCHANGED <<client, surfaces, signalled, fenced, bufferVars, gpu, kept, direct, planes>>

\* Submit of a buffer the compositor could not import: discarded, released,
\* its release point signalled now.
SubmitFailed(s, b, sync, drawn) ==
    LET n == Len(frames) + 1
        old == OnSurface(At({"waiting"}), s)
        points == {releases[c] : c \in BuffersOf(old)} \ {0}
    IN  /\ buffers[b] = "failed" /\ MaySubmit(s, b, sync, drawn)
        /\ frames' = Append(frames, [surface |-> s, buffer |-> b, sync |-> sync])
        /\ acquired' = IF drawn THEN acquired \cup {n} ELSE acquired
        /\ stage' = [m \in 1..n |-> IF m = n \/ m \in old THEN "told" ELSE stage[m]]
        /\ signalled' = IF "release" \in sync THEN signalled \cup {n} ELSE signalled
        /\ after' = after \cup points
        /\ releases' = [c \in Buffers |-> IF c \in BuffersOf(old) THEN 0 ELSE releases[c]]
        /\ UNCHANGED <<client, surfaces, fenced, bufferVars, gpu, kept, direct, planes>>

\* DestroyBuffer: a failed buffer is forgotten; frames of a buffer still
\* waiting are superseded, and the scene ends the buffer once it lets it go.
DestroyBuffer(b) ==
    LET old == OfBuffer(b) \cap At({"waiting"})
        gone == destroyed \cup {b}
    IN  /\ Destroys /\ client /\ b \notin destroyed /\ buffers[b] \in {"made", "failed"}
        /\ destroyed' = gone
        /\ stage' = Moved(old, "told")
        /\ Supersede(old)
        /\ Retire(BuffersOf(At(InScene)), gone, gpu)
        /\ UNCHANGED <<clientVars, kept, direct, planes>>

\* Destroy of a surface: its waiting frame goes with it; the scene lets go of
\* its frames, those the frame on its way reads when that ends.
DestroySurface(s) ==
    LET old == OnSurface(At({"waiting"}), s)
        held == OnSurface(At({"queued", "current"}), s)
        given == IF direct.pending THEN "deferred" ELSE "event"
    IN  /\ Destroys /\ client /\ s \in surfaces
        /\ surfaces' = surfaces \ {s}
        /\ stage' = [n \in Frames |-> IF n \in old THEN "told" ELSE IF n \in held THEN given ELSE stage[n]]
        /\ Supersede(old)
        /\ Retire(BuffersOf(At(InScene) \ IF direct.pending THEN {} ELSE held), destroyed, gpu)
        /\ UNCHANGED <<client, frames, acquired, destroyed, kept, direct, planes>>

\* The connection ends, or a request is refused: GpuBuffers::disconnect.
Disconnect ==
    LET lost == Collected(orphans \cup Made, kept, direct)
    IN  /\ Destroys /\ client
        /\ client' = FALSE /\ surfaces' = {}
        /\ stage' = Moved(Frames, "told")
        /\ releases' = [b \in Buffers |-> 0] /\ after' = {}
        /\ buffers' = [b \in Buffers |-> "gone"]
        /\ orphans' = (orphans \cup Made) \ lost
        /\ gpu' = Forget(gpu, lost)
        /\ UNCHANGED <<frames, acquired, signalled, fenced, destroyed, kept, direct, planes>>

\* The client's GPU has drawn frame n and its acquire point signals: it drew
\* after the release point of the buffer's frame before.
Draw(n) ==
    LET before == {m \in OfBuffer(frames[n].buffer) : m < n}
    IN  /\ "acquire" \in frames[n].sync /\ n \notin acquired
        /\ \A m \in before : "release" \in frames[m].sync => m \in signalled
        /\ acquired' = acquired \cup {n}
        /\ UNCHANGED <<client, surfaces, frames, stage, pointVars, bufferVars, gpu, kept, direct, planes>>

----------------------------------------------------------------------------
(* The compositor's turn *)

\* Release points of superseded frames whose acquire points have signalled.
Due == after \cap acquired

\* follow_gpu_sync: frames whose acquire point signalled go to the scene,
\* release points of superseded frames signal after their acquire points, and
\* held releases are tried again.
FollowWaiting ==
    LET ready == At({"waiting"}) \cap acquired
        replaced == {n \in At({"queued"}) : frames[n].surface \in {frames[m].surface : m \in ready}}
        given == IF direct.pending THEN "deferred" ELSE "event"
    IN  /\ ready # {} \/ Due # {}
        /\ stage' = [n \in Frames |-> IF n \in ready THEN "queued"
                                      ELSE IF n \in replaced THEN given ELSE stage[n]]
        /\ after' = after \ Due /\ signalled' = signalled \cup Due
        /\ UNCHANGED <<clientVars, fenced, releases, bufferVars, gpu, kept, direct, planes>>

FollowReleases ==
    LET held == At({"held"})
        polled == Polled(gpu)
        asked == [polled EXCEPT !.asked = @ \cup AskedFor(held, polled)]
        lost == Collected(orphans, kept, direct)
    IN  /\ TryReleases(held, polled)
        /\ gpu' = Forget(SubmitReleases(asked), lost)
        /\ orphans' = orphans \ lost
        /\ UNCHANGED <<clientVars, after, buffers, destroyed, kept, direct, planes>>

\* flush, hold_gpu_event: the scene's Released events, held or sent.
Flush ==
    LET events == At({"event"})
    IN  /\ events # {}
        /\ TryReleases(events, gpu)
        /\ gpu' = [gpu EXCEPT !.asked = @ \cup AskedFor(events, gpu)]
        /\ UNCHANGED <<clientVars, after, bufferVars, kept, direct, planes>>

\* The scene latches queued frames; what they replace goes when the frame ends.
Latched ==
    [n \in Frames |-> IF stage[n] = "queued" THEN "current"
                      ELSE IF /\ stage[n] = "current"
                              /\ OnSurface(At({"queued"}), frames[n].surface) # {} THEN "deferred"
                      ELSE stage[n]]
Shown == {frames[n].buffer : n \in {m \in Frames : Latched[m] = "current"}}

\* present_direct, assign_overlay: a plane takes the buffer of a frame shown
\* that nothing covers, while no transition runs.
OnPlane(mode, b) ==
    /\ b \in Shown /\ kept = {} /\ b \in gpu.imports
    /\ mode = "alone" => planes.primary = None \/ (OverDirect /\ planes.primary # b)

\* present, present_composed: a frame is composed (mode
\* "composed"), a window's buffer goes on the primary plane ("direct"), on the
\* overlay plane with what changed outside it composed ("overlay"), or on it
\* alone when nothing did ("alone").
Present(mode, b) ==
    /\ direct.on /\ ~direct.pending
    /\ mode = "composed" <=> b = None
    /\ b # None => OnPlane(mode, b)
    /\ stage' = Latched
    /\ direct' = [direct EXCEPT !.next = b, !.pending = TRUE]
    /\ planes' = [planes EXCEPT
                    !.primary = CASE mode = "direct" -> b [] mode = "alone" -> @ [] OTHER -> None,
                    !.coming = ({b} \cup IF mode = "alone" THEN {planes.primary} ELSE {}) \ {None}]
    /\ IF mode \in {"composed", "overlay"}
       THEN /\ gpu' = Composed(Finished(gpu), Shown \cup kept)
            /\ signalled' = signalled \cup fenced /\ fenced' = {}
       ELSE UNCHANGED <<gpu, signalled, fenced>>
    /\ UNCHANGED <<clientVars, releases, after, bufferVars, kept>>

\* A mistake: the buffer shown before is let go when the next is handed over.
FlipShown(d) == [d EXCEPT !.pending = FALSE, !.shown = None, !.next = None]

\* The display shows the frame handed over: what it showed is let go.
Flipped(d) == [d EXCEPT !.pending = FALSE, !.shown = d.next, !.next = None]

\* complete_flip, end_frame_on, retire: flipped, never flipped, or the display lost.
CompleteFlip(how) ==
    LET ended == At({"deferred"})
    IN  /\ direct.on /\ direct.pending
        /\ direct' = CASE how = "shown" -> Flipped(direct)
                       [] how = "never" -> [direct EXCEPT !.pending = FALSE, !.next = None]
                       [] how = "lost"  -> [direct EXCEPT !.pending = FALSE, !.next = None, !.on = FALSE]
        /\ planes' = CASE how = "shown" -> [planes EXCEPT !.scan = planes.coming, !.coming = {}]
                       [] how = "never" -> [planes EXCEPT !.coming = {}]
                       [] how = "lost"  -> [planes EXCEPT !.scan = {}, !.coming = {}]
        /\ stage' = Moved(ended, "event")
        /\ LET leaving == (destroyed \ BuffersOf(At(InScene \ {"deferred"}))) \cap Made
               lost == Collected(orphans \cup leaving, kept, direct')
           IN  /\ buffers' = [b \in Buffers |-> IF b \in leaving THEN "gone" ELSE buffers[b]]
               /\ orphans' = IF leaving = {} THEN orphans ELSE (orphans \cup leaving) \ lost
               /\ gpu' = IF leaving = {} THEN gpu ELSE Forget(gpu, lost)
        /\ UNCHANGED <<clientVars, pointVars, destroyed, kept>>

\* follow_direct: a screen with no display holds nothing.
FollowDirect ==
    /\ ~direct.on /\ direct.shown # None
    /\ direct' = [direct EXCEPT !.shown = None]
    /\ UNCHANGED <<clientVars, stage, pointVars, bufferVars, gpu, kept, planes>>

\* The device finishes the submission in flight: release points given its
\* completion signal with it.
GpuDone ==
    /\ gpu.flight = "running"
    /\ gpu' = [gpu EXCEPT !.flight = "done"]
    /\ signalled' = signalled \cup fenced /\ fenced' = {}
    /\ UNCHANGED <<clientVars, stage, releases, after, bufferVars, kept, direct, planes>>

\* A transition draws a window's last frame; then it ends.
StartTransition(b) ==
    /\ Transitions /\ b \in BuffersOf(At({"current"})) \cap Made /\ b \notin kept
    /\ kept' = kept \cup {b}
    /\ UNCHANGED <<clientVars, stage, pointVars, bufferVars, gpu, direct, planes>>

EndTransitions ==
    /\ kept # {} /\ kept' = {}
    /\ UNCHANGED <<clientVars, stage, pointVars, bufferVars, gpu, direct, planes>>

----------------------------------------------------------------------------

Modes == {"composed", "direct", "overlay", "alone"}

Requests ==
    \/ \E b \in Buffers, made \in BOOLEAN : Attach(b, made)
    \/ \E s \in Surfaces, b \in Buffers, sync \in Syncs, drawn \in BOOLEAN :
            Submit(s, b, sync, drawn) \/ SubmitFailed(s, b, sync, drawn)
    \/ \E b \in Buffers : DestroyBuffer(b)
    \/ \E s \in Surfaces : DestroySurface(s)
    \/ Disconnect

Follow == FollowWaiting \/ FollowReleases \/ Flush \/ FollowDirect

Next ==
    \/ Requests
    \/ \E n \in Frames : Draw(n)
    \/ Follow
    \/ \E mode \in Modes, b \in Buffers \cup {None} : Present(mode, b)
    \/ \E how \in {"shown", "never", "lost"} : CompleteFlip(how)
    \/ GpuDone
    \/ \E b \in Buffers : StartTransition(b)
    \/ EndTransitions

Spec == Init /\ [][Next]_vars

\* The turn comes back while anything waits (gpu_sync_pending, next_wake) and
\* flushes; the device finishes what it is given, transitions end, and a
\* display given frame after frame flips in the end, or is lost.
LiveSpec ==
    /\ Spec
    /\ WF_vars(FollowWaiting) /\ WF_vars(FollowReleases) /\ WF_vars(Flush) /\ WF_vars(FollowDirect)
    /\ WF_vars(GpuDone) /\ SF_vars(CompleteFlip("shown") \/ CompleteFlip("lost"))
    /\ WF_vars(EndTransitions)
    /\ WF_vars(\E mode \in Modes, b \in Buffers \cup {None} : Present(mode, b))

----------------------------------------------------------------------------
(* Properties *)

\* What reads a buffer: the scene's frames, a transition, a plane of the
\* display, or the submission in flight.
Read(b) ==
    \/ b \in BuffersOf(At(InScene)) \/ b \in kept \cup planes.scan \cup planes.coming
    \/ b \in gpu.reading /\ gpu.flight = "running"

\* The client may be drawing into a buffer: the last frame was released, or
\* the frame submitted is one its GPU has not drawn yet.
Drawing(b) ==
    LET n == Last(b)
    IN  \/ n # 0 /\ Released(n)
        \/ /\ n # 0 /\ "acquire" \in frames[n].sync /\ n \notin acquired
           /\ \A m \in OfBuffer(b) \ {n} : "release" \in frames[m].sync => m \in signalled

\* While the client may be drawing into a buffer, neither a composition, nor a
\* transition, nor a plane of the display, nor a frame of the scene reads it:
\* what release_gpu_buffer and the wait for acquire points are for.
DrawnUnread == client => \A b \in Buffers : Drawing(b) => ~Read(b)

\* A buffer goes back to the client only when the compositor's queue has
\* released it to the queue that wrote it (release_dma_buf, submit_releases).
ReleasedUnheld == client => \A b \in Buffers : Drawing(b) => b \notin gpu.held

\* A frame's release point never signals before its acquire point, superseded
\* or not (supersede, after_acquire), for buffers the compositor imported.
AcquireFirst ==
    \A n \in signalled : \/ "acquire" \notin frames[n].sync \/ n \in acquired
                         \/ buffers[frames[n].buffer] \in {"failed", "gone"}

\* The imports of buffers a submission reads or a plane shows are there: a
\* buffer destroyed, or whose client left, goes once nothing draws it.
DrawnImported == gpu.reading \cup Uses(kept, direct) \subseteq gpu.imports

\* A buffer a plane of the display scans out, or will from the flip on its
\* way, is held until a later flip replaces it (Direct.shown and next).
ScannedHeld == planes.scan \cup planes.coming \subseteq {direct.next, direct.shown}

\* Every frame the scene lets go is told Released in the end.
EveryFrameTold ==
    \A n \in 1..MaxFrames :
        (n \in At({"deferred", "event", "held"})) ~> (n \in At({"told"}))

\* The compositor signals the release point of a frame it no longer reads,
\* once the acquire point has signalled.
EveryPointSignalled ==
    \A n \in 1..MaxFrames :
        (/\ n \in At({"told"}) /\ client /\ "release" \in frames[n].sync
         /\ "acquire" \in frames[n].sync => n \in acquired)
        ~> (n \in signalled \/ ~client)
=============================================================================
