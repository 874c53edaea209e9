---------------------------- MODULE ClientFrames ----------------------------
(* A client's frames as oxyos-client presents them: shared-memory buffers the
   library owns, reused once the compositor releases them, each brought up to
   date with only what changed since it was last written; beside them buffers
   the caller owns, whose frames the same history records.

   A frame's content is a version per region of its surface.  The compositor
   is modelled by what it reads: it keeps the frame submitted last of every
   surface, and lets go of an older one when it pleases. *)
EXTENDS Integers, Sequences, FiniteSets, SequencesExt

CONSTANTS
    Surfaces,      \* surface ids of one connection
    Extents,       \* sizes a surface is drawn at
    Regions,       \* the parts of a frame damage tells apart
    HISTORY,       \* frames whose damage is kept (16 in the code)
    MaxFrames,     \* bound: frames presented
    MaxAttached,   \* bound: buffers of the caller
    MaxDestroyed,  \* bound: surfaces destroyed
    None

HistoryAssumption == HISTORY \in Nat \ {0}
BoundsAssumption ==
    MaxFrames \in Nat /\ MaxAttached \in Nat /\ MaxDestroyed \in Nat
RegionsAssumption == IsFiniteSet(Regions) /\ Regions # {}

VARIABLES
    client,   \* the library: buffers, attached, nextBuffer, sequence, history
    drawn,    \* what the caller's surface looks like: its size and versions
    memory,   \* what each buffer's memory holds, by region
    reads,    \* what the compositor may read: [buffer, surface, sequence]
    events,   \* Released events on their way to the client, in order
    sent,     \* the frame submitted last: what it should show, and its buffer
    spent     \* bounds

vars == <<client, drawn, memory, reads, events, sent, spent>>

Buffers == 1..(MaxFrames + MaxAttached)
Frames == 0..MaxFrames
Unwritten == [r \in Regions |-> 0]

Buffer == [id : Buffers, surface : Surfaces, extent : Extents,
           busy : BOOLEAN, written : Frames]
Attached == [id : Buffers, extent : Extents]
Presented == [surface : Surfaces, sequence : Frames, extent : Extents,
              damage : SUBSET Regions \cup {None}]
Drawn == [extent : Extents, versions : [Regions -> Frames]]
Read == [buffer : Buffers, surface : Surfaces, sequence : Frames]

TypeOK ==
    /\ client.buffers \in Seq(Buffer)
    /\ client.attached \subseteq Attached
    /\ client.nextBuffer \in 0..(MaxFrames + MaxAttached)
    /\ client.sequence \in Frames
    /\ client.history \in Seq(Presented) /\ Len(client.history) <= HISTORY
    /\ drawn \in [Surfaces -> Drawn \cup {None}]
    /\ memory \in [Buffers -> [Regions -> Frames]]
    /\ reads \subseteq Read
    /\ events \in Seq(Buffers)
    /\ sent # None => sent.buffer \in Buffers /\ sent.frame \in Drawn

Init ==
    /\ client = [buffers |-> <<>>, attached |-> {}, nextBuffer |-> 0,
                 sequence |-> 0, history |-> <<>>]
    /\ drawn = [s \in Surfaces |-> None]
    /\ memory = [b \in Buffers |-> Unwritten]
    /\ reads = {}
    /\ events = <<>>
    /\ sent = None
    /\ spent = [attached |-> 0, destroyed |-> 0]

------------------------------------------------------------------------------
(* What the caller says changed, clipped to the buffer: nothing at all means
   everything. *)
Clipped(damage) == IF damage = {} THEN None ELSE damage

(* The history with one more frame, the oldest forgotten past HISTORY. *)
Recorded(history, frame) ==
    LET longer == Append(history, frame)
    IN  IF Len(longer) > HISTORY THEN Tail(longer) ELSE longer

(* Idle buffers of another size are destroyed by a present. *)
Stale(b, s, extent) == b.surface = s /\ ~b.busy /\ b.extent # extent

(* The first idle buffer of the surface's size, 0 when it has none. *)
Idle(buffers, s, extent) ==
    SelectInSeq(buffers, LAMBDA b : b.surface = s /\ ~b.busy /\ b.extent = extent)

(* A mistake: a history that reaches back to any frame is taken as complete. *)
CompleteAnySurface(history, s, written) == written # 0

(* Whether the history reaches back to the frame `written` of the surface. *)
Complete(history, s, written) ==
    \E i \in DOMAIN history :
        history[i].surface = s /\ history[i].sequence <= written

(* What a buffer written at `written` lacks of this frame: the damage of every
   frame since and its own, or everything (all regions). *)
Missed(history, s, extent, damage, written) ==
    LET since == {i \in DOMAIN history : /\ history[i].surface = s
                                         /\ history[i].sequence > written}
    IN  IF \/ written = 0 \/ ~Complete(history, s, written) \/ damage = None
           \/ \E i \in since : \/ history[i].extent # extent
                               \/ history[i].damage = None
        THEN Regions
        ELSE damage \cup UNION {history[i].damage : i \in since}

(* The library without its idle buffers of another size, and with one to draw
   in: an idle one, or another attached. *)
Prepared(c, s, extent) ==
    LET kept == SelectSeq(c.buffers, LAMBDA b : ~Stale(b, s, extent))
        new == [id |-> c.nextBuffer + 1, surface |-> s, extent |-> extent,
                busy |-> FALSE, written |-> 0]
    IN  IF Idle(kept, s, extent) # 0
        THEN [c EXCEPT !.buffers = kept]
        ELSE [c EXCEPT !.buffers = Append(kept, new), !.nextBuffer = @ + 1]

(* The caller draws the next frame of a surface: `changed` since the one
   before, at the same size; all of it at another. *)
NextFrame(s, extent, changed) ==
    LET before == drawn[s]
        whole == before = None \/ (before # None => before.extent # extent)
    IN  [extent |-> extent,
         versions |-> [r \in Regions |->
            IF whole \/ r \in changed THEN client.sequence + 1
                                      ELSE before.versions[r]]]

(* Damage the caller may give of such a frame: what changed, or everything
   (none) when that is not known or the size is another. *)
Honest(s, extent, changed) ==
    {None} \cup IF drawn[s] = None THEN {}
                ELSE IF drawn[s].extent # extent THEN {}
                ELSE {changed}

Submitted(s, buffer, frame, sequence) ==
    /\ drawn' = [drawn EXCEPT ![s] = frame]
    /\ reads' = reads \cup {[buffer |-> buffer, surface |-> s,
                             sequence |-> sequence]}
    /\ sent' = [buffer |-> buffer, frame |-> frame]

(* A frame's pixels into a buffer of the library, submitted. *)
Present(s, extent, changed, damage) ==
    /\ client.sequence < MaxFrames
    /\ damage \in Honest(s, extent, changed)
    /\ LET frame == NextFrame(s, extent, changed)
           told == IF damage = None THEN None ELSE Clipped(damage)
           c == Prepared(client, s, extent)
           i == Idle(c.buffers, s, extent)
           b == c.buffers[i]
           lacks == Missed(c.history, s, extent, told, b.written)
           sequence == c.sequence + 1
       IN  /\ memory' = [memory EXCEPT ![b.id] =
                            [r \in Regions |-> IF r \in lacks
                                               THEN frame.versions[r]
                                               ELSE @[r]]]
           /\ client' = [c EXCEPT
                !.buffers[i] = [b EXCEPT !.busy = TRUE, !.written = sequence],
                !.sequence = sequence,
                !.history = Recorded(@, [surface |-> s, sequence |-> sequence,
                                         extent |-> extent, damage |-> told])]
           /\ Submitted(s, b.id, frame, sequence)
    /\ UNCHANGED <<events, spent>>

(* The caller's own memory made a buffer of the connection. *)
AttachBuffer(extent) ==
    /\ spent.attached < MaxAttached
    /\ spent' = [spent EXCEPT !.attached = @ + 1]
    /\ client' = [client EXCEPT
            !.nextBuffer = @ + 1,
            !.attached = @ \cup {[id |-> client.nextBuffer + 1,
                                  extent |-> extent]}]
    /\ UNCHANGED <<drawn, memory, reads, events, sent>>

(* The caller draws a frame into a buffer of its own which the compositor does
   not read, and submits it: the library records its damage with the others. *)
SubmitBuffer(s, a, changed, damage) ==
    /\ client.sequence < MaxFrames
    /\ a \in client.attached
    /\ \A r \in reads : r.buffer # a.id
    /\ damage \in Honest(s, a.extent, changed)
    /\ LET frame == NextFrame(s, a.extent, changed)
           told == IF damage = None THEN None ELSE Clipped(damage)
           sequence == client.sequence + 1
       IN  /\ memory' = [memory EXCEPT ![a.id] = frame.versions]
           /\ client' = [client EXCEPT
                !.sequence = sequence,
                !.history = Recorded(@, [surface |-> s, sequence |-> sequence,
                                         extent |-> a.extent,
                                         damage |-> told])]
           /\ Submitted(s, a.id, frame, sequence)
    /\ UNCHANGED <<events, spent>>

(* The caller ends a buffer of its own. *)
DetachBuffer(a) ==
    /\ a \in client.attached
    /\ client' = [client EXCEPT !.attached = @ \ {a}]
    /\ UNCHANGED <<drawn, memory, reads, events, sent, spent>>

(* A surface and the buffers it drew with end; its id may name another. *)
DestroySurface(s) ==
    /\ drawn[s] # None
    /\ spent.destroyed < MaxDestroyed
    /\ client' = [client EXCEPT
            !.buffers = SelectSeq(@, LAMBDA b : b.surface # s)]
    /\ drawn' = [drawn EXCEPT ![s] = None]
    /\ spent' = [spent EXCEPT !.destroyed = @ + 1]
    /\ UNCHANGED <<memory, reads, events, sent>>

(* The compositor no longer reads a frame: superseded by a later one of its
   surface, or the surface is gone. *)
Release(r) ==
    /\ r \in reads
    /\ \/ \E other \in reads : /\ other.surface = r.surface
                               /\ other.sequence > r.sequence
       \/ drawn[r.surface] = None
    /\ reads' = reads \ {r}
    /\ events' = Append(events, r.buffer)
    /\ UNCHANGED <<client, drawn, memory, sent, spent>>

(* A mistake: a release makes every buffer of the surface idle. *)
ObserveAll ==
    /\ events # <<>>
    /\ client' = [client EXCEPT
            !.buffers = [i \in DOMAIN @ |-> [@[i] EXCEPT !.busy = FALSE]]]
    /\ events' = Tail(events)
    /\ UNCHANGED <<drawn, memory, reads, sent, spent>>

(* The client reads its next event: a released buffer of its own is idle. *)
Observe ==
    /\ events # <<>>
    /\ client' = [client EXCEPT
            !.buffers = [i \in DOMAIN @ |->
                IF @[i].id = Head(events) THEN [@[i] EXCEPT !.busy = FALSE]
                                          ELSE @[i]]]
    /\ events' = Tail(events)
    /\ UNCHANGED <<drawn, memory, reads, sent, spent>>

Next ==
    \/ \E s \in Surfaces, extent \in Extents, changed \in SUBSET Regions :
          \E damage \in Honest(s, extent, changed) :
             Present(s, extent, changed, damage)
    \/ \E extent \in Extents : AttachBuffer(extent)
    \/ \E s \in Surfaces, a \in client.attached, changed \in SUBSET Regions :
          \E damage \in Honest(s, a.extent, changed) :
             SubmitBuffer(s, a, changed, damage)
    \/ \E a \in client.attached : DetachBuffer(a)
    \/ \E s \in Surfaces : DestroySurface(s)
    \/ \E r \in reads : Release(r)
    \/ Observe

Spec == Init /\ [][Next]_vars

------------------------------------------------------------------------------
(* A frame submitted shows what the caller drew, whichever frames its buffer
   missed while others were shown: frames of other surfaces that fill the
   history, a resize and back, frames in buffers of the caller. *)
Whole == sent # None => memory[sent.buffer] = sent.frame.versions

(* The library never writes into memory the compositor may read. *)
ReadKept == \A r \in reads : memory'[r.buffer] = memory[r.buffer]

(* A buffer the library takes for idle is one nothing will read: neither the
   compositor, nor a release still on its way, which would free it again
   while it shows a later frame. *)
IdleIsFree ==
    \A i \in DOMAIN client.buffers :
        ~client.buffers[i].busy =>
            /\ \A r \in reads : r.buffer # client.buffers[i].id
            /\ \A e \in DOMAIN events : events[e] # client.buffers[i].id
==============================================================================
