-------------------------- MODULE SceneFramesProofs --------------------------
(***************************************************************************)
(* Proofs about client buffers and frames, for any clients, surfaces,      *)
(* buffers, screens and window roles: nothing waits for a frame that never *)
(* ends, a buffer is in one place, and frames on their way keep what they  *)
(* read from its client.                                                   *)
(*                                                                         *)
(* Every step that lets go of buffers does it by one Release.  What such a *)
(* step does is proved once: `Settled` says what one buffer sees of it,    *)
(* each step is shown to settle so (Settles_), and the invariants of       *)
(* places (Place_) and of readings (Read_) follow from that alone.         *)
(***************************************************************************)
EXTENDS SceneFrames, FiniteSetTheorems, TLAPS

USE ClientAssumption, WindowAssumption, SpanAssumption, NoneAssumption
-----------------------------------------------------------------------------
(* What a release does, piece by piece.                                      *)

\* The buffers of R no frame of F reads, the releases of R that wait, those that
\* wait no more, and the destroyed buffers nothing refers to any longer.
Now(R, F)   == {r[2] : r \in {q \in R : Reading(q[1], F) = {}}}
Later(R, F) == {[surface |-> r[1], buffer |-> r[2], frames |-> Reading(r[1], F)] :
                   r \in {q \in R : Reading(q[1], F) # {}}}
Over(R, F)  == {d \in deferred \cup Later(R, F) : d.frames \cap F = {}}
Ended(R, F) == {d.buffer : d \in Over(R, F)}
Gone(R, F)  == {b \in Now(R, F) \cup Ended(R, F) :
                   \/ registry[b] = "none"
                   \/ /\ registry[b] = "destroyed"
                      /\ b \notin HeldBy(nodes)'
                      /\ \/ b \in Ended(R, F)
                         \/ b \notin {d.buffer : d \in deferred \cup Later(R, F)}}

\* The same release, by its pieces.
LEMMA Release_Is ==
    ASSUME NEW R, NEW F, NEW given, NEW drain, Release(R, F, given, drain)
    PROVE  /\ deferred' = {[d EXCEPT !.frames = @ \cap F] :
                              d \in (deferred \cup Later(R, F)) \ Over(R, F)}
           /\ registry' = [b \in Buffers |-> IF b \in Gone(R, F) THEN "none" ELSE registry[b]]
           /\ retired' = IF drain THEN {} ELSE retired \cup Gone(R, F)
           /\ stored' = IF drain THEN stored \ (retired \cup Gone(R, F)) ELSE stored
           /\ free' = (free \ given) \cup
                      {b \in Now(R, F) \cup Ended(R, F) :
                          registry[b] = "attached" /\ clients[ClientOf[b]] = "connected"}
BY DEF Release, Now, Later, Over, Ended, Gone

\* The parts of the type invariant.
NodeTypes == /\ nodes \subseteq Surfaces
             /\ above \in [Surfaces -> SUBSET Surfaces]
             /\ output \in [Surfaces -> OrNone(Outputs)]
             /\ span \in [Surfaces -> SUBSET Outputs]
             /\ dismissed \in [Surfaces -> BOOLEAN]
SlotTypes == /\ displayed \in [Surfaces -> OrNone(Buffers)]
             /\ presenting \in [Surfaces -> OrNone(Buffers)]
             /\ queued \in [Surfaces -> OrNone(Buffers)]
             /\ presentingIn \in [Surfaces -> OrNone(Outputs)]
BufferTypes == /\ registry \in [Buffers -> {"fresh", "attached", "destroyed", "none"}]
               /\ deferred \subseteq Waiting
               /\ retired \subseteq Buffers
               /\ stored \subseteq Buffers
               /\ free \subseteq Buffers
FrameTypes == /\ screens \subseteq Outputs
              /\ inflight \subseteq Outputs
              /\ reads \in [Outputs -> SUBSET Surfaces]
              /\ pending \in [Outputs -> {"none", "frame", "pointer"}]
              /\ drawn \in [Outputs -> SUBSET (Surfaces \X Buffers)]
TurnTypes == /\ list \subseteq Surfaces \X Buffers
             /\ phase \in {"idle", "begin", "compose", "unplug"}
             /\ todo \subseteq Outputs
             /\ started \subseteq Outputs
ClientTypes == clients \in [Clients -> {"new", "connected", "gone"}]

\* The type invariant is its parts, now and after a step.
LEMMA Types_Are ==
    /\ TypeOK <=> /\ ClientTypes /\ NodeTypes /\ SlotTypes /\ BufferTypes /\ FrameTypes /\ TurnTypes
    /\ TypeOK' <=> /\ ClientTypes' /\ NodeTypes' /\ SlotTypes' /\ BufferTypes' /\ FrameTypes'
                   /\ TurnTypes'
BY DEF TypeOK, ClientTypes, NodeTypes, SlotTypes, BufferTypes, FrameTypes, TurnTypes

\* What a surface holds are buffers.
LEMMA Held_Type ==
    ASSUME SlotTypes, NEW s \in Surfaces
    PROVE  Held(s) \subseteq Buffers
BY DEF SlotTypes, Held, OrNone

\* What surfaces hold are pairs of a surface and a buffer.
LEMMA HeldPairs_Type ==
    ASSUME SlotTypes, NEW S, S \subseteq Surfaces
    PROVE  HeldPairs(S) \subseteq Surfaces \X Buffers
BY Held_Type DEF HeldPairs

\* Which pairs they are.
LEMMA HeldPairs_Is ==
    ASSUME NEW S, NEW s, NEW b
    PROVE  <<s, b>> \in HeldPairs(S) <=> s \in S /\ b \in Held(s)
BY DEF HeldPairs

\* Whoever falls is a surface.
LEMMA Fallen_Type ==
    ASSUME NodeTypes, NEW out, out \subseteq Surfaces
    PROVE  Fallen(out) \subseteq Surfaces
BY DEF Fallen, Under, Below, NodeTypes

\* What is let go are pairs of a surface and a buffer.
LEMMA LetGo_Type ==
    ASSUME NodeTypes, SlotTypes, NEW asked, NEW out, asked \subseteq Surfaces, out \subseteq Surfaces
    PROVE  LetGo(asked, out) \subseteq Surfaces \X Buffers
<1>1. HeldPairs(Fallen(out)) \subseteq Surfaces \X Buffers
  BY Fallen_Type, HeldPairs_Type
<1>2. \A s \in Dropped(asked, out) : s \in Surfaces /\ queued[s] \in Buffers
  BY DEF Dropped, SlotTypes, OrNone
<1> QED BY <1>1, <1>2 DEF LetGo

\* So is what a new frame replaces.
LEMMA Superseded_Type ==
    ASSUME SlotTypes, NEW s \in Surfaces
    PROVE  Superseded(s) \subseteq Surfaces \X Buffers
BY DEF SlotTypes, Superseded, OrNone

\* Emptying slots keeps their type.
LEMMA Emptied_Type ==
    ASSUME NEW V, NEW f \in [Surfaces -> OrNone(V)], NEW S
    PROVE  Emptied(f, S) \in [Surfaces -> OrNone(V)]
BY DEF Emptied, OrNone

\* So does letting go of everything.
LEMMA TakeAll_Type ==
    ASSUME SlotTypes, NEW S, TakeAll(S)
    PROVE  SlotTypes'
BY DEF SlotTypes, TakeAll, Emptied, OrNone

\* A release that waits is one of a surface and a buffer, for frames of F.
LEMMA Later_Type ==
    ASSUME NEW R, R \subseteq Surfaces \X Buffers, NEW F, F \subseteq Outputs
    PROVE  Later(R, F) \subseteq Waiting
<1>1. \A q \in R : q[1] \in Surfaces /\ q[2] \in Buffers /\ Reading(q[1], F) \subseteq Outputs
  BY DEF Reading
<1> QED BY <1>1 DEF Later, Waiting

\* What is released at once are buffers.
LEMMA Now_Type ==
    ASSUME NEW R, R \subseteq Surfaces \X Buffers, NEW F
    PROVE  Now(R, F) \subseteq Buffers
BY DEF Now

\* A release keeps the buffers well formed, and every release that still waits
\* waits for frames in flight.
LEMMA Release_Type ==
    ASSUME BufferTypes, NEW R, R \subseteq Surfaces \X Buffers, NEW F, F \subseteq Outputs,
           NEW given, NEW drain, Release(R, F, given, drain)
    PROVE  /\ BufferTypes'
           /\ \A d \in deferred' : d.frames # {} /\ d.frames \subseteq F
<1>1. deferred \cup Later(R, F) \subseteq Waiting
  BY Later_Type DEF BufferTypes
<1>2. Over(R, F) \subseteq Waiting /\ Ended(R, F) \subseteq Buffers
  BY <1>1 DEF Over, Ended, Waiting
<1>3. Now(R, F) \cup Ended(R, F) \subseteq Buffers /\ Gone(R, F) \subseteq Buffers
  BY <1>2, Now_Type DEF Gone
<1>4. \A d \in (deferred \cup Later(R, F)) \ Over(R, F) :
          /\ [d EXCEPT !.frames = @ \cap F] \in Waiting
          /\ [d EXCEPT !.frames = @ \cap F].frames = d.frames \cap F
          /\ d.frames \cap F # {}
  BY <1>1 DEF Over, Waiting
<1>5. deferred' \subseteq Waiting /\ \A d \in deferred' : d.frames # {} /\ d.frames \subseteq F
  <2> SUFFICES ASSUME NEW e \in deferred'
               PROVE  e \in Waiting /\ e.frames # {} /\ e.frames \subseteq F
    OBVIOUS
  <2>1. PICK d \in (deferred \cup Later(R, F)) \ Over(R, F) : e = [d EXCEPT !.frames = @ \cap F]
    BY Release_Is
  <2>2. e \in Waiting /\ e.frames = d.frames \cap F /\ d.frames \cap F # {}
    BY <1>4, <2>1
  <2> QED BY <2>2
<1>6. registry' \in [Buffers -> {"fresh", "attached", "destroyed", "none"}]
  BY Release_Is DEF BufferTypes
<1>7. retired' \subseteq Buffers /\ stored' \subseteq Buffers
  BY <1>3, Release_Is DEF BufferTypes
<1>8. free' \subseteq Buffers
  BY <1>3, Release_Is DEF BufferTypes
<1> QED BY <1>5, <1>6, <1>7, <1>8 DEF BufferTypes

\* Surfaces let go or are asked for new content: their slots are only emptied.
LEMMA LeaveAndAsk_Type ==
    ASSUME NodeTypes, SlotTypes, NEW asked, NEW out, LeaveAndAsk(asked, out)
    PROVE  SlotTypes' /\ dismissed' \in [Surfaces -> BOOLEAN]
<1>1. SlotTypes'
  BY Emptied_Type DEF LeaveAndAsk, SlotTypes
<1>2. dismissed' \in [Surfaces -> BOOLEAN]
  BY DEF LeaveAndAsk, NodeTypes
<1> QED BY <1>1, <1>2

\* A frame's end keeps the types, and what is still waited for is in flight.
LEMMA EndFrameOn_Type ==
    ASSUME TypeOK, NEW o \in Outputs, NEW asked, asked \subseteq Surfaces,
           NEW out, out \subseteq Surfaces, NEW drain, EndFrameOn(o, asked, out, drain)
    PROVE  /\ ClientTypes' /\ NodeTypes' /\ SlotTypes' /\ BufferTypes'
           /\ UNCHANGED screens /\ inflight' = inflight \ {o} /\ inflight' \subseteq Outputs
           /\ reads' \in [Outputs -> SUBSET Surfaces]
           /\ drawn' \in [Outputs -> SUBSET (Surfaces \X Buffers)]
           /\ \A d \in deferred' : d.frames # {} /\ d.frames \subseteq inflight'
<1> DEFINE shown == {s \in nodes : presenting[s] # None /\ presentingIn[s] = o}
           old   == {<<s, displayed[s]>> : s \in {t \in shown : displayed[t] # None}}
<1> USE Types_Are
<1>1. old \subseteq Surfaces \X Buffers
  BY DEF NodeTypes, SlotTypes, OrNone
<1>2. LetGo(asked, out) \subseteq Surfaces \X Buffers
  BY LetGo_Type
<1>3. UNCHANGED <<clients, nodes, above, output, span, screens>> /\ inflight' = inflight \ {o}
  BY DEF EndFrameOn
<1>4. inflight' \subseteq Outputs
  BY <1>3 DEF FrameTypes
<1>5. Release(old \cup LetGo(asked, out), inflight', {}, drain)
  BY DEF EndFrameOn
<1>6. old \cup LetGo(asked, out) \subseteq Surfaces \X Buffers
  BY <1>1, <1>2
<1> HIDE DEF old
<1>7. BufferTypes' /\ \A d \in deferred' : d.frames # {} /\ d.frames \subseteq inflight'
  BY <1>4, <1>5, <1>6, Release_Type
<1>8. dismissed' \in [Surfaces -> BOOLEAN]
  BY DEF EndFrameOn, NodeTypes
<1>9. SlotTypes'
  <2>1. displayed' \in [Surfaces -> OrNone(Buffers)]
    <3>1. displayed' = [s \in Surfaces |-> IF s \in Fallen(out) THEN None
                                           ELSE IF s \in shown THEN presenting[s]
                                           ELSE displayed[s]]
      BY DEF EndFrameOn
    <3> QED BY <3>1 DEF SlotTypes, OrNone
  <2>2. /\ presenting' \in [Surfaces -> OrNone(Buffers)] /\ queued' \in [Surfaces -> OrNone(Buffers)]
        /\ presentingIn' \in [Surfaces -> OrNone(Outputs)]
    BY Emptied_Type DEF EndFrameOn, SlotTypes
  <2> QED BY <2>1, <2>2 DEF SlotTypes
<1>10. /\ reads' \in [Outputs -> SUBSET Surfaces]
       /\ drawn' \in [Outputs -> SUBSET (Surfaces \X Buffers)]
  BY DEF EndFrameOn, FrameTypes
<1> QED BY <1>3, <1>4, <1>7, <1>8, <1>9, <1>10 DEF ClientTypes, NodeTypes

\* Requests keep the types.
LEMMA TypeOK_Requests == TypeOK /\ Requests => TypeOK'
<1> SUFFICES ASSUME TypeOK, Requests PROVE TypeOK'
  OBVIOUS
<1> USE Types_Are
<1>1. ASSUME NEW c \in Clients, Connect(c) PROVE TypeOK'
  BY <1>1 DEF Connect, nodeVars, slots, bufVars, frameVars, turnVars, ClientTypes, NodeTypes,
     SlotTypes, BufferTypes, FrameTypes, TurnTypes
<1>2. ASSUME NEW c \in Clients, Disconnect(c) PROVE TypeOK'
  <2> DEFINE mine == {s \in nodes : ClientOf[s] = c}
  <2>1. /\ mine \subseteq Surfaces /\ UNCHANGED <<screens, frameVars, turnVars>> /\ TakeAll(mine)
        /\ clients' = [clients EXCEPT ![c] = "gone"]
        /\ nodes' = nodes \ mine
        /\ above' = [s \in Surfaces |-> IF s \in mine THEN {} ELSE above[s]]
        /\ output' = [s \in Surfaces |-> IF s \in mine THEN None ELSE output[s]]
        /\ span' = [s \in Surfaces |-> IF s \in mine THEN {} ELSE span[s]]
        /\ dismissed' = [s \in Surfaces |-> s \notin mine /\ dismissed[s]]
    BY <1>2 DEF Disconnect, NodeTypes
  <2>2. SlotTypes'
    BY <2>1, TakeAll_Type
  <2>3. HeldPairs(mine) \subseteq Surfaces \X Buffers
    BY <2>1, HeldPairs_Type
  <2>4. deferred' = deferred \cup Later(HeldPairs(mine), inflight)
    BY <1>2 DEF Disconnect, Later
  <2>5. Later(HeldPairs(mine), inflight) \subseteq Waiting
    BY <2>3, Later_Type DEF FrameTypes
  <2>6. registry' \in [Buffers -> {"fresh", "attached", "destroyed", "none"}]
    BY <1>2 DEF Disconnect, BufferTypes
  <2>7. BufferTypes'
    BY <1>2, <2>4, <2>5, <2>6 DEF Disconnect, BufferTypes
  <2> HIDE DEF mine
  <2>8. dismissed' \in [Surfaces -> BOOLEAN]
    BY <2>1 DEF NodeTypes
  <2>9. ClientTypes' /\ NodeTypes'
    BY <2>1, <2>8 DEF ClientTypes, NodeTypes, OrNone
  <2> QED BY <2>1, <2>2, <2>7, <2>9 DEF frameVars, turnVars, FrameTypes, TurnTypes
<1>3. ASSUME NEW s \in Surfaces, NEW p \in OrNone(Surfaces), NEW o \in Outputs, NEW sp \in Spans,
             CreateSurface(s, p, o, sp)
      PROVE  TypeOK'
  <2>1. /\ UNCHANGED <<clients, slots, bufVars, screens, frameVars, turnVars>>
        /\ nodes' = nodes \cup {s}
        /\ above' = [above EXCEPT ![s] = IF p = None THEN {} ELSE {p} \cup above[p]]
        /\ output' = [output EXCEPT ![s] = o] /\ span' = [span EXCEPT ![s] = sp]
        /\ dismissed' = [dismissed EXCEPT ![s] = FALSE]
    BY <1>3 DEF CreateSurface
  <2>2. (IF p = None THEN {} ELSE {p} \cup above[p]) \subseteq Surfaces
    BY DEF NodeTypes, OrNone
  <2>3. dismissed' \in [Surfaces -> BOOLEAN]
    BY <2>1 DEF NodeTypes
  <2>4. NodeTypes'
    BY <2>1, <2>2, <2>3 DEF NodeTypes, OrNone
  <2> QED BY <2>1, <2>4 DEF slots, bufVars, frameVars, turnVars, ClientTypes, SlotTypes,
          BufferTypes, FrameTypes, TurnTypes
<1>4. ASSUME NEW s \in Surfaces, Destroy(s) PROVE TypeOK'
  <2> DEFINE letGo == {s} \cup Below(s)
  <2>1. letGo \subseteq Surfaces
    BY DEF Below, NodeTypes
  <2>2. /\ UNCHANGED <<clients, screens, frameVars, turnVars>> /\ TakeAll(letGo)
        /\ Release(HeldPairs(letGo), inflight, {}, TRUE)
    BY <1>4 DEF Destroy
  <2>3. SlotTypes'
    BY <2>2, TakeAll_Type
  <2>4. BufferTypes'
    BY <2>1, <2>2, HeldPairs_Type, Release_Type DEF FrameTypes
  <2>5. dismissed' \in [Surfaces -> BOOLEAN]
    BY <1>4 DEF Destroy, NodeTypes
  <2>6. above' \in [Surfaces -> SUBSET Surfaces]
    BY <1>4 DEF Destroy, NodeTypes
  <2>7. NodeTypes'
    BY <1>4, <2>5, <2>6 DEF Destroy, NodeTypes, OrNone
  <2> QED BY <2>2, <2>3, <2>4, <2>7 DEF frameVars, turnVars, ClientTypes, FrameTypes, TurnTypes
<1>5. ASSUME NEW s \in Surfaces, NEW b \in Buffers, Submit(s, b) PROVE TypeOK'
  <2>1. /\ UNCHANGED <<clients, nodeVars, displayed, presenting, presentingIn, screens,
                       frameVars, turnVars>>
        /\ queued' = [queued EXCEPT ![s] = b]
        /\ Release(Superseded(s), inflight, {b}, TRUE)
    BY <1>5 DEF Submit
  <2>2. BufferTypes'
    BY <2>1, Superseded_Type, Release_Type DEF FrameTypes
  <2>3. SlotTypes'
    BY <2>1 DEF SlotTypes, OrNone
  <2> QED BY <2>1, <2>2, <2>3 DEF nodeVars, frameVars, turnVars, ClientTypes, NodeTypes,
          FrameTypes, TurnTypes
<1>6. ASSUME NEW s \in Surfaces, NEW b \in Buffers, SubmitDiscarded(s, b) PROVE TypeOK'
  <2>1. /\ UNCHANGED <<clients, nodeVars, slots, screens, frameVars, turnVars>>
        /\ Release({<<s, b>>}, inflight, {b}, TRUE)
    BY <1>6 DEF SubmitDiscarded
  <2>2. BufferTypes'
    <3>1. {<<s, b>>} \subseteq Surfaces \X Buffers
      OBVIOUS
    <3> QED BY <2>1, <3>1, Release_Type DEF FrameTypes
  <2> QED BY <2>1, <2>2 DEF nodeVars, slots, frameVars, turnVars, ClientTypes, NodeTypes,
          SlotTypes, FrameTypes, TurnTypes
<1>7. ASSUME NEW b \in Buffers,
             (\E gpu \in BOOLEAN : Attach(b, gpu)) \/ DestroyBuffer(b) \/ OtherRequest
      PROVE  TypeOK'
  <2>1. UNCHANGED <<clients, nodeVars, slots, deferred, screens, frameVars, turnVars>>
    BY <1>7 DEF Attach, DestroyBuffer, OtherRequest
  <2>2. registry' \in [Buffers -> {"fresh", "attached", "destroyed", "none"}]
    BY <1>7 DEF Attach, DestroyBuffer, OtherRequest, BufferTypes
  <2>3. retired' \subseteq Buffers /\ stored' \subseteq Buffers /\ free' \subseteq Buffers
    BY <1>7 DEF Attach, DestroyBuffer, OtherRequest, BufferTypes
  <2> QED BY <2>1, <2>2, <2>3 DEF nodeVars, slots, frameVars, turnVars, ClientTypes, NodeTypes,
          SlotTypes, BufferTypes, FrameTypes, TurnTypes
<1>8. CASE OtherRequest
  <2>1. /\ UNCHANGED <<clients, nodeVars, slots, registry, deferred, free, screens, frameVars,
                       turnVars>>
        /\ retired' = {} /\ stored' = stored \ retired
    BY <1>8 DEF OtherRequest
  <2> QED BY <2>1 DEF nodeVars, slots, frameVars, turnVars, ClientTypes, NodeTypes,
          SlotTypes, BufferTypes, FrameTypes, TurnTypes
<1> QED BY <1>1, <1>2, <1>3, <1>4, <1>5, <1>6, <1>7, <1>8 DEF Requests

\* What the compositor does to surfaces keeps the types.
LEMMA TypeOK_Policy == TypeOK /\ Policy => TypeOK'
<1> SUFFICES ASSUME TypeOK, Policy PROVE TypeOK'
  OBVIOUS
<1> USE Types_Are
<1>1. ASSUME NEW s \in Surfaces, Dismiss(s) PROVE TypeOK'
  <2>1. /\ UNCHANGED <<clients, nodes, above, output, span, screens, frameVars, turnVars>>
        /\ LeaveAndAsk({}, {s}) /\ Release(LetGo({}, {s}), inflight, {}, FALSE)
        /\ LetGo({}, {s}) \subseteq Surfaces \X Buffers
    BY <1>1, LetGo_Type DEF Dismiss
  <2>2. SlotTypes' /\ dismissed' \in [Surfaces -> BOOLEAN]
    BY <2>1, LeaveAndAsk_Type
  <2>3. BufferTypes'
    BY <2>1, Release_Type DEF FrameTypes
  <2> QED BY <2>1, <2>2, <2>3 DEF frameVars, turnVars, ClientTypes, NodeTypes, FrameTypes, TurnTypes
<1>2. ASSUME NEW s \in Surfaces, NEW asked \in SUBSET Surfaces, NEW out \in SUBSET Surfaces,
             NEW at \in Outputs, NEW sp \in Spans, Rearrange(s, asked, out, at, sp)
      PROVE  TypeOK'
  <2>1. /\ UNCHANGED <<clients, nodes, above, screens, frameVars, turnVars>>
        /\ LeaveAndAsk(asked, out) /\ Release(LetGo(asked, out), inflight, {}, FALSE)
        /\ LetGo(asked, out) \subseteq Surfaces \X Buffers
    BY <1>2, LetGo_Type DEF Rearrange
  <2>2. SlotTypes' /\ dismissed' \in [Surfaces -> BOOLEAN]
    BY <2>1, LeaveAndAsk_Type
  <2>3. BufferTypes'
    BY <2>1, Release_Type DEF FrameTypes
  <2>4. /\ output' \in [Surfaces -> OrNone(Outputs)]
        /\ span' \in [Surfaces -> SUBSET Outputs]
    BY <1>2 DEF Rearrange, NodeTypes, OrNone
  <2> QED BY <2>1, <2>2, <2>3, <2>4 DEF frameVars, turnVars, ClientTypes, NodeTypes, FrameTypes,
          TurnTypes
<1> QED BY <1>1, <1>2 DEF Policy

\* A turn keeps the types.
LEMMA TypeOK_Turn == TypeOK /\ (Turn \/ \E o \in Outputs : Flip(o)) => TypeOK'
<1> SUFFICES ASSUME TypeOK, Turn \/ \E o \in Outputs : Flip(o) PROVE TypeOK'
  OBVIOUS
<1> USE Types_Are
<1>1. CASE StartFrame
  BY <1>1 DEF StartFrame, Ready, nodeVars, slots, bufVars, frameVars, ClientTypes, NodeTypes,
     SlotTypes, BufferTypes, FrameTypes, TurnTypes
<1>2. CASE TakeFrameList
  <2>1. list' \subseteq Surfaces \X Buffers
    <3>1. \A s \in nodes : Visible(s) => s \in Surfaces /\ View(s) \in Buffers
      BY DEF Visible, View, NodeTypes, SlotTypes, OrNone
    <3> QED BY <1>2, <3>1 DEF TakeFrameList
  <2> QED BY <1>2, <2>1 DEF TakeFrameList, Ready, nodeVars, slots, bufVars, frameVars, ClientTypes,
          NodeTypes, SlotTypes, BufferTypes, FrameTypes, TurnTypes
<1>3. ASSUME NEW o \in Outputs, NEW sp \in [Surfaces -> Spans], BeginFrameOn(o, sp) PROVE TypeOK'
  <2>1. /\ UNCHANGED <<clients, nodes, above, output, dismissed, displayed, bufVars, screens,
                       pending, drawn, list, phase>>
        /\ presenting' = [s \in Surfaces |-> IF s \in Starting(o) THEN queued[s] ELSE presenting[s]]
        /\ presentingIn' = [s \in Surfaces |-> IF s \in Starting(o) THEN o ELSE presentingIn[s]]
        /\ queued' = Emptied(queued, Starting(o))
        /\ span' = [s \in Surfaces |-> IF s \in Starting(o) THEN sp[s] ELSE span[s]]
        /\ reads' = [reads EXCEPT ![o] = ReadBy(o)] /\ inflight' = inflight \cup {o}
        /\ todo' = todo \ {o} /\ (started' = started \/ started' = started \cup {o})
    BY <1>3 DEF BeginFrameOn
  <2>2. ReadBy(o) \subseteq Surfaces
    BY DEF ReadBy, NodeTypes
  <2>3. SlotTypes'
    BY <2>1, Emptied_Type DEF SlotTypes, OrNone
  <2>4. span' \in [Surfaces -> SUBSET Outputs]
    BY <2>1 DEF NodeTypes
  <2> QED BY <2>1, <2>2, <2>3, <2>4 DEF bufVars, ClientTypes, NodeTypes, BufferTypes, FrameTypes,
          TurnTypes
<1>4. ASSUME NEW o \in Outputs, ComposeAndFlip(o) PROVE TypeOK'
  <2>1. drawn' \in [Outputs -> SUBSET (Surfaces \X Buffers)]
    BY <1>4 DEF ComposeAndFlip, FrameTypes, TurnTypes
  <2> QED BY <1>4, <2>1 DEF ComposeAndFlip, NextScreen, nodeVars, slots, bufVars, ClientTypes,
          NodeTypes, SlotTypes, BufferTypes, FrameTypes, TurnTypes
<1>5. ASSUME NEW o \in Outputs, NEW asked \in SUBSET Surfaces, NEW out \in SUBSET Surfaces,
             NEW flip \in {"none", "pointer"}, NEW drain, EndFrameOn(o, asked, out, drain),
             NextScreen(o), UNCHANGED pending \/ pending' = [pending EXCEPT ![o] = flip]
      PROVE  TypeOK'
  <2>1. pending' \in [Outputs -> {"none", "frame", "pointer"}]
    BY <1>5 DEF FrameTypes
  <2>2. TurnTypes'
    BY <1>5 DEF NextScreen, TurnTypes
  <2>3. FrameTypes'
    BY <1>5, <2>1, EndFrameOn_Type DEF FrameTypes
  <2> QED BY <1>5, <2>2, <2>3, EndFrameOn_Type
<1>6. ASSUME NEW o \in Outputs, NEW asked \in SUBSET Surfaces, NEW out \in SUBSET Surfaces,
             CompleteFlip(o, asked, out)
      PROVE  TypeOK'
  <2>1. EndFrameOn(o, asked, out, TRUE) /\ UNCHANGED turnVars
        /\ pending' = [pending EXCEPT ![o] = "none"]
    BY <1>6 DEF CompleteFlip
  <2>2. FrameTypes'
    BY <2>1, EndFrameOn_Type DEF FrameTypes
  <2> QED BY <2>1, <2>2, EndFrameOn_Type DEF turnVars, TurnTypes
<1>7. ASSUME NEW o \in Outputs, CompletePointerFlip(o) PROVE TypeOK'
  BY <1>7 DEF CompletePointerFlip, nodeVars, slots, bufVars, turnVars, ClientTypes, NodeTypes,
     SlotTypes, BufferTypes, FrameTypes, TurnTypes
<1> QED BY <1>1, <1>2, <1>3, <1>4, <1>5, <1>6, <1>7
        DEF Turn, Flip, ComposeNothing, ComposeAtOnce

\* Displays coming and going keep the types.
LEMMA TypeOK_Hotplug == TypeOK /\ Hotplug => TypeOK'
<1> SUFFICES ASSUME TypeOK, Hotplug PROVE TypeOK'
  OBVIOUS
<1> USE Types_Are
<1>1. ASSUME NEW o \in Outputs, NEW asked \in SUBSET Surfaces, NEW out \in SUBSET Surfaces,
             DetachDisplay(o, asked, out)
      PROVE  TypeOK'
  <2>1. /\ phase' = "unplug" /\ todo' = {o} /\ UNCHANGED <<list, started>>
        /\ pending' = [pending EXCEPT ![o] = "none"]
    BY <1>1 DEF DetachDisplay
  <2>2. TurnTypes' /\ pending' \in [Outputs -> {"none", "frame", "pointer"}]
    BY <2>1 DEF TurnTypes, FrameTypes
  <2>3. CASE EndFrameOn(o, asked, out, TRUE)
    BY <2>2, <2>3, EndFrameOn_Type DEF FrameTypes
  <2>4. CASE /\ stored' = stored \ retired /\ retired' = {}
             /\ UNCHANGED <<clients, nodeVars, slots, registry, deferred, free, screens, inflight,
                            reads, drawn>>
    BY <2>2, <2>4 DEF nodeVars, slots, ClientTypes, NodeTypes, SlotTypes, BufferTypes, FrameTypes
  <2> QED BY <1>1, <2>3, <2>4 DEF DetachDisplay
<1>2. ASSUME NEW o \in Outputs, NEW target \in OrNone(Outputs), NEW asked \in SUBSET Surfaces,
             NEW out \in SUBSET Surfaces, RemoveOutput(o, target, asked, out)
      PROVE  TypeOK'
  <2>1. /\ UNCHANGED <<clients, nodes, above, frameVars, list, started>>
        /\ LeaveAndAsk(asked, out) /\ Release(LetGo(asked, out), inflight, {}, TRUE)
        /\ LetGo(asked, out) \subseteq Surfaces \X Buffers
        /\ screens' = screens \ {o} /\ phase' = "idle" /\ todo' = {}
    BY <1>2, LetGo_Type DEF RemoveOutput
  <2>2. SlotTypes' /\ dismissed' \in [Surfaces -> BOOLEAN]
    BY <2>1, LeaveAndAsk_Type
  <2>3. BufferTypes'
    BY <2>1, Release_Type DEF FrameTypes
  <2>4. /\ output' \in [Surfaces -> OrNone(Outputs)]
        /\ span' \in [Surfaces -> SUBSET Outputs]
    BY <1>2 DEF RemoveOutput, NodeTypes, OrNone, DrawnAt
  <2> QED BY <2>1, <2>2, <2>3, <2>4 DEF frameVars, ClientTypes, NodeTypes, FrameTypes, TurnTypes
<1>3. ASSUME NEW o \in Outputs, AddOutput(o) PROVE TypeOK'
  <2>1. PICK orphans \in SUBSET Surfaces :
          /\ UNCHANGED <<clients, nodes, above, frameVars, turnVars>>
          /\ LeaveAndAsk(orphans, {}) /\ Release(LetGo(orphans, {}), inflight, {}, FALSE)
          /\ screens' = screens \cup {o}
          /\ output' = [s \in Surfaces |-> IF s \in orphans THEN o ELSE output[s]]
          /\ span' = [s \in Surfaces |-> IF s \in orphans \/ output[s] = o THEN {o} ELSE span[s]]
    BY <1>3 DEF AddOutput, NodeTypes
  <2>2. SlotTypes' /\ dismissed' \in [Surfaces -> BOOLEAN]
    BY <2>1, LeaveAndAsk_Type
  <2>3. BufferTypes'
    BY <2>1, LetGo_Type, Release_Type DEF FrameTypes
  <2>4. /\ output' \in [Surfaces -> OrNone(Outputs)]
        /\ span' \in [Surfaces -> SUBSET Outputs]
    BY <2>1 DEF NodeTypes, OrNone
  <2> QED BY <2>1, <2>2, <2>3, <2>4 DEF frameVars, turnVars, ClientTypes, NodeTypes, FrameTypes,
          TurnTypes
<1> QED BY <1>1, <1>2, <1>3 DEF Hotplug

\* The start is well formed.
LEMMA TypeOK_Init == Init => TypeOK
<1> SUFFICES ASSUME Init PROVE TypeOK
  OBVIOUS
<1>1. dismissed \in [Surfaces -> BOOLEAN]
  BY DEF Init
<1>2. /\ ClientTypes /\ SlotTypes /\ BufferTypes /\ FrameTypes /\ TurnTypes /\ NodeTypes
  BY <1>1 DEF Init, ClientTypes, SlotTypes, BufferTypes, FrameTypes, TurnTypes, NodeTypes, OrNone
<1> QED BY <1>2, Types_Are

\* Every step keeps the types.
LEMMA TypeOK_Next == TypeOK /\ [Next]_vars => TypeOK'
<1>1. TypeOK /\ UNCHANGED vars => TypeOK'
  <2> SUFFICES ASSUME TypeOK, UNCHANGED vars PROVE TypeOK'
    OBVIOUS
  <2>1. UNCHANGED <<clients, nodes, above, output, span, dismissed, displayed, presenting, queued,
                    presentingIn, registry, deferred, retired, stored, free, screens, inflight,
                    reads, pending, drawn, list, phase, todo, started>>
    BY DEF vars, nodeVars, slots, bufVars, frameVars, turnVars
  <2> QED BY <2>1 DEF TypeOK
<1> QED BY <1>1, TypeOK_Requests, TypeOK_Policy, TypeOK_Turn, TypeOK_Hotplug DEF Next

\* The scene and the turns of the compositor are type correct.
THEOREM SceneFrames_TypeOK == Spec => []TypeOK
BY TypeOK_Init, TypeOK_Next, PTL DEF Spec

-----------------------------------------------------------------------------
(* What waits for frames.                                                    *)

\* The screens whose frame has begun and is not handed over yet.
Begun == IF phase = "begin" THEN Ready \ todo
         ELSE IF phase = "compose" THEN todo ELSE {}

\* The frames in flight are those handed over and those of the turn.
FramesInv ==
    /\ inflight = {o \in screens : pending[o] = "frame"} \cup Begun
    /\ \A o \in Outputs \ screens : pending[o] = "none"
    /\ phase \in {"begin", "compose", "unplug"} => todo \subseteq Ready

\* What is presenting is in a frame in flight; so is all a release waits for.
WaitingInv ==
    /\ \A s \in Surfaces : presenting[s] # None => s \in nodes /\ presentingIn[s] \in inflight
    /\ \A d \in deferred : d.frames # {} /\ d.frames \subseteq inflight

\* At the start no frame is on its way.
LEMMA FramesInv_Init == Init => FramesInv /\ WaitingInv
BY DEF Init, FramesInv, WaitingInv, Begun, Ready

\* A frame is in flight from its screen's begin to its flip.
LEMMA FramesInv_Next == TypeOK /\ FramesInv /\ [Next]_vars => FramesInv'
<1> SUFFICES ASSUME TypeOK, FramesInv, [Next]_vars PROVE FramesInv'
  OBVIOUS
<1>0. FrameTypes /\ TurnTypes
  BY Types_Are
<1> USE DEF FramesInv, Begun, Ready
<1>1. CASE UNCHANGED <<screens, inflight, pending, phase, todo>>
  BY <1>1
<1>2. CASE Requests \/ Policy \/ UNCHANGED vars
  <2>1. UNCHANGED <<screens, frameVars, turnVars>>
    BY <1>2 DEF Requests, Policy, Connect, Disconnect, CreateSurface, Destroy, Submit,
       SubmitDiscarded, Attach, DestroyBuffer, OtherRequest, Dismiss, Rearrange, vars
  <2>2. UNCHANGED <<screens, inflight, pending, phase, todo>>
    BY <2>1 DEF frameVars, turnVars
  <2> QED BY <1>1, <2>2
<1>3. CASE StartFrame \/ TakeFrameList
  <2>1. UNCHANGED <<screens, inflight, pending>>
    BY <1>3 DEF StartFrame, TakeFrameList, frameVars
  <2>2. \/ phase = "idle" /\ phase' = "begin" /\ todo' = Ready
        \/ phase = "begin" /\ todo = {} /\ phase' = "compose" /\ todo' = Ready
    BY <1>3 DEF StartFrame, TakeFrameList, Idle
  <2> QED BY <2>1, <2>2
<1>4. ASSUME NEW o \in Outputs, NEW sp \in [Surfaces -> Spans], BeginFrameOn(o, sp)
      PROVE  FramesInv'
  <2>1. /\ UNCHANGED <<screens, pending, phase>> /\ phase = "begin" /\ o \in todo
        /\ inflight' = inflight \cup {o} /\ todo' = todo \ {o}
    BY <1>4 DEF BeginFrameOn
  <2> QED BY <2>1
<1>5. ASSUME NEW o \in Outputs, ComposeAndFlip(o) PROVE FramesInv'
  <2>1. /\ UNCHANGED <<screens, inflight>> /\ phase = "compose" /\ o \in todo
        /\ pending' = [pending EXCEPT ![o] = "frame"] /\ todo' = todo \ {o}
        /\ phase' = IF todo = {o} THEN "idle" ELSE "compose"
    BY <1>5 DEF ComposeAndFlip, NextScreen
  <2> QED BY <1>0, <2>1 DEF FrameTypes
<1>6. ASSUME NEW o \in Outputs, NEW asked, NEW out, NEW flip \in {"none", "pointer"},
             ComposeNothing(o, asked, out, flip) \/ ComposeAtOnce(o, asked, out)
      PROVE  FramesInv'
  <2>1. /\ UNCHANGED screens /\ inflight' = inflight \ {o} /\ phase = "compose" /\ o \in todo
        /\ UNCHANGED pending \/ pending' = [pending EXCEPT ![o] = flip]
        /\ todo' = todo \ {o}
        /\ phase' = IF todo = {o} THEN "idle" ELSE "compose"
    BY <1>6 DEF ComposeNothing, ComposeAtOnce, EndFrameOn, NextScreen
  <2> QED BY <1>0, <2>1 DEF FrameTypes
<1>7. ASSUME NEW o \in Outputs, NEW asked, NEW out,
             CompleteFlip(o, asked, out) \/ CompletePointerFlip(o)
      PROVE  FramesInv'
  <2>1. /\ UNCHANGED <<screens, phase, todo>> /\ phase = "idle"
        /\ pending' = [pending EXCEPT ![o] = "none"]
        /\ \/ pending[o] = "frame" /\ inflight' = inflight \ {o}
           \/ pending[o] = "pointer" /\ inflight' = inflight
    BY <1>7 DEF CompleteFlip, CompletePointerFlip, EndFrameOn, turnVars, Idle
  <2> QED BY <1>0, <2>1 DEF FrameTypes
<1>8. ASSUME NEW o \in Outputs, NEW asked, NEW out, DetachDisplay(o, asked, out)
      PROVE  FramesInv'
  <2>1. /\ UNCHANGED screens /\ phase = "idle" /\ o \in screens
        /\ phase' = "unplug" /\ todo' = {o} /\ pending' = [pending EXCEPT ![o] = "none"]
        /\ \/ pending[o] = "frame" /\ inflight' = inflight \ {o}
           \/ pending[o] # "frame" /\ inflight' = inflight
    BY <1>8 DEF DetachDisplay, EndFrameOn, FrameOnItsWay, Idle
  <2> QED BY <1>0, <2>1 DEF FrameTypes
<1>9. ASSUME NEW o \in Outputs, NEW target, NEW asked, NEW out, RemoveOutput(o, target, asked, out)
      PROVE  FramesInv'
  <2>1. /\ screens' = screens \ {o} /\ phase = "unplug" /\ todo = {o}
        /\ phase' = "idle" /\ todo' = {} /\ UNCHANGED <<inflight, pending>>
    BY <1>9 DEF RemoveOutput, frameVars
  <2> QED BY <1>0, <2>1 DEF FrameTypes
<1>10. ASSUME NEW o \in Outputs, AddOutput(o) PROVE FramesInv'
  <2>1. /\ screens' = screens \cup {o} /\ o \notin screens /\ phase = "idle"
        /\ UNCHANGED <<phase, todo, inflight, pending>>
    BY <1>10 DEF AddOutput, Idle, frameVars, turnVars
  <2> QED BY <1>0, <2>1 DEF FrameTypes
<1> QED BY <1>2, <1>3, <1>4, <1>5, <1>6, <1>7, <1>8, <1>9, <1>10 DEF Next, Turn, Flip, Hotplug

\* Slots that are only emptied present nothing new.
LEMMA Waiting_Emptied ==
    ASSUME TypeOK, WaitingInv, NEW S, NEW T,
           presenting' = Emptied(presenting, S), presentingIn' = Emptied(presentingIn, S),
           nodes' = nodes \ T, T \subseteq S, inflight' = inflight,
           \A d \in deferred' : d.frames # {} /\ d.frames \subseteq inflight
    PROVE  WaitingInv'
<1>1. \A s \in Surfaces : presenting'[s] # None => s \notin S /\ presenting[s] # None
                                                    /\ presentingIn'[s] = presentingIn[s]
  BY DEF Emptied
<1> QED BY <1>1 DEF WaitingInv

\* Steps that present nothing and settle no release.
LEMMA Waiting_Kept ==
    ASSUME WaitingInv, UNCHANGED <<presenting, presentingIn, inflight>>, nodes \subseteq nodes',
           \A d \in deferred' : d.frames # {} /\ d.frames \subseteq inflight
    PROVE  WaitingInv'
BY DEF WaitingInv

\* A frame that ends takes what presented in it along.
LEMMA Waiting_End ==
    ASSUME TypeOK, WaitingInv, NEW o \in Outputs, NEW asked \in SUBSET Surfaces,
           NEW out \in SUBSET Surfaces, NEW drain, EndFrameOn(o, asked, out, drain)
    PROVE  WaitingInv'
<1> DEFINE shown == {s \in nodes : presenting[s] # None /\ presentingIn[s] = o}
<1>1. \A d \in deferred' : d.frames # {} /\ d.frames \subseteq inflight'
  BY EndFrameOn_Type
<1>2. /\ presenting' = Emptied(presenting, shown \cup Fallen(out))
      /\ presentingIn' = Emptied(presentingIn, shown \cup Fallen(out))
      /\ nodes' = nodes /\ inflight' = inflight \ {o}
  BY DEF EndFrameOn
<1>3. \A s \in Surfaces : presenting'[s] # None => s \notin shown /\ presenting[s] # None
                                                    /\ presentingIn'[s] = presentingIn[s]
  BY <1>2 DEF Emptied
<1> QED BY <1>1, <1>2, <1>3 DEF WaitingInv

\* Every step keeps what is presenting, and what releases wait for, in frames in flight.
LEMMA WaitingInv_Next == TypeOK /\ FramesInv /\ WaitingInv /\ [Next]_vars => WaitingInv'
<1> SUFFICES ASSUME TypeOK, FramesInv, WaitingInv, [Next]_vars PROVE WaitingInv'
  OBVIOUS
<1>0. NodeTypes /\ SlotTypes /\ BufferTypes /\ FrameTypes
  BY Types_Are
<1>1. CASE UNCHANGED <<nodes, presenting, presentingIn, inflight, deferred>>
  BY <1>1 DEF WaitingInv
<1>2. ASSUME NEW c \in Clients, Disconnect(c) PROVE WaitingInv'
  <2> DEFINE mine == {s \in nodes : ClientOf[s] = c}
  <2>1. /\ nodes' = nodes \ mine /\ TakeAll(mine) /\ inflight' = inflight
        /\ deferred' = deferred \cup Later(HeldPairs(mine), inflight)
    BY <1>2 DEF Disconnect, Later, frameVars
  <2>2. \A d \in Later(HeldPairs(mine), inflight) : d.frames # {} /\ d.frames \subseteq inflight
    <3> SUFFICES ASSUME NEW d \in Later(HeldPairs(mine), inflight)
                 PROVE  d.frames # {} /\ d.frames \subseteq inflight
      OBVIOUS
    <3>1. PICK r \in HeldPairs(mine) :
              /\ Reading(r[1], inflight) # {}
              /\ d = [surface |-> r[1], buffer |-> r[2], frames |-> Reading(r[1], inflight)]
      BY DEF Later
    <3>2. d.frames = Reading(r[1], inflight)
      BY <3>1
    <3> QED BY <3>1, <3>2 DEF Reading
  <2>3. \A d \in deferred' : d.frames # {} /\ d.frames \subseteq inflight
    BY <2>1, <2>2 DEF WaitingInv
  <2> QED BY <2>1, <2>3, Waiting_Emptied DEF TakeAll
<1>3. ASSUME NEW s \in Surfaces, Destroy(s) PROVE WaitingInv'
  <2> DEFINE letGo == {s} \cup Below(s)
  <2>1. /\ nodes' = nodes \ {s} /\ TakeAll(letGo) /\ inflight' = inflight
        /\ Release(HeldPairs(letGo), inflight, {}, TRUE)
    BY <1>3 DEF Destroy, frameVars
  <2>2. letGo \subseteq Surfaces
    BY <1>0 DEF Below, NodeTypes
  <2>3. \A d \in deferred' : d.frames # {} /\ d.frames \subseteq inflight
    BY <1>0, <2>1, <2>2, HeldPairs_Type, Release_Type DEF FrameTypes
  <2>4. presenting' = Emptied(presenting, letGo) /\ presentingIn' = Emptied(presentingIn, letGo)
    BY <2>1 DEF TakeAll
  <2> QED BY <2>1, <2>3, <2>4, Waiting_Emptied
<1>4. ASSUME NEW s \in Surfaces, NEW b \in Buffers, Submit(s, b) \/ SubmitDiscarded(s, b)
      PROVE  WaitingInv'
  <2>1. PICK R \in {Superseded(s), {<<s, b>>}} : Release(R, inflight, {b}, TRUE)
    BY <1>4 DEF Submit, SubmitDiscarded
  <2>2. R \subseteq Surfaces \X Buffers
    BY <1>0, Superseded_Type
  <2>3. \A d \in deferred' : d.frames # {} /\ d.frames \subseteq inflight
    BY <1>0, <2>1, <2>2, Release_Type DEF FrameTypes
  <2>4. UNCHANGED <<nodes, presenting, presentingIn, inflight>>
    BY <1>4 DEF Submit, SubmitDiscarded, nodeVars, slots, frameVars
  <2> QED BY <2>3, <2>4, Waiting_Kept
<1>5. ASSUME NEW asked \in SUBSET Surfaces, NEW out \in SUBSET Surfaces, NEW drain,
             LeaveAndAsk(asked, out), Release(LetGo(asked, out), inflight, {}, drain),
             UNCHANGED <<nodes, inflight>>
      PROVE  WaitingInv'
  <2>1. \A d \in deferred' : d.frames # {} /\ d.frames \subseteq inflight
    BY <1>0, <1>5, LetGo_Type, Release_Type DEF FrameTypes
  <2>2. /\ presenting' = Emptied(presenting, Fallen(out)) /\ nodes' = nodes \ {}
        /\ presentingIn' = Emptied(presentingIn, Fallen(out))
    BY <1>5 DEF LeaveAndAsk
  <2> QED BY <1>5, <2>1, <2>2, Waiting_Emptied
<1>6. ASSUME NEW o \in Outputs, NEW sp \in [Surfaces -> Spans], BeginFrameOn(o, sp)
      PROVE  WaitingInv'
  <2>1. /\ UNCHANGED <<nodes, deferred>> /\ inflight' = inflight \cup {o}
        /\ presenting' = [s \in Surfaces |-> IF s \in Starting(o) THEN queued[s] ELSE presenting[s]]
        /\ presentingIn' = [s \in Surfaces |-> IF s \in Starting(o) THEN o ELSE presentingIn[s]]
        /\ Starting(o) \subseteq nodes
    BY <1>6 DEF BeginFrameOn, bufVars, Starting
  <2> QED BY <2>1 DEF WaitingInv
<1>7. CASE Requests
  <2>1. ASSUME NEW s \in Surfaces, NEW p \in OrNone(Surfaces), NEW o \in Outputs, NEW sp \in Spans,
               CreateSurface(s, p, o, sp)
        PROVE  WaitingInv'
    <3>1. UNCHANGED <<presenting, presentingIn, inflight, deferred>> /\ nodes \subseteq nodes'
      BY <2>1 DEF CreateSurface, slots, frameVars, bufVars
    <3> QED BY <3>1 DEF WaitingInv
  <2>2. ASSUME NEW b \in Buffers, DestroyBuffer(b) \/ \E gpu \in BOOLEAN : Attach(b, gpu)
        PROVE  UNCHANGED <<nodes, presenting, presentingIn, inflight, deferred>>
    <3>1. UNCHANGED <<nodeVars, slots, deferred, frameVars>>
      BY <2>2 DEF Attach, DestroyBuffer
    <3> QED BY <3>1 DEF nodeVars, slots, frameVars
  <2>3. CASE OtherRequest
    <3>1. UNCHANGED <<nodeVars, slots, deferred, frameVars>>
      BY <2>3 DEF OtherRequest
    <3>2. UNCHANGED <<nodes, presenting, presentingIn, inflight, deferred>>
      BY <3>1 DEF nodeVars, slots, frameVars
    <3> QED BY <1>1, <3>2
  <2>4. ASSUME NEW c \in Clients, Connect(c) PROVE WaitingInv'
    <3>1. UNCHANGED <<nodeVars, slots, bufVars, frameVars>>
      BY <2>4 DEF Connect
    <3>2. UNCHANGED <<nodes, presenting, presentingIn, inflight, deferred>>
      BY <3>1 DEF nodeVars, slots, bufVars, frameVars
    <3> QED BY <1>1, <3>2
  <2>5. ASSUME NEW b \in Buffers, NEW gpu \in BOOLEAN, Attach(b, gpu) PROVE WaitingInv'
    BY <1>1, <2>2, <2>5
  <2>6. ASSUME NEW b \in Buffers, DestroyBuffer(b) PROVE WaitingInv'
    BY <1>1, <2>2, <2>6
  <2> QED BY <1>2, <1>3, <1>4, <1>7, <2>1, <2>3, <2>4, <2>5, <2>6 DEF Requests
<1>8. CASE Policy
  <2>1. ASSUME NEW s \in Surfaces, Dismiss(s) PROVE WaitingInv'
    <3>1. {} \in SUBSET Surfaces /\ {s} \in SUBSET Surfaces
      OBVIOUS
    <3>2. /\ LeaveAndAsk({}, {s}) /\ Release(LetGo({}, {s}), inflight, {}, FALSE)
          /\ UNCHANGED <<nodes, inflight>>
      BY <2>1 DEF Dismiss, frameVars
    <3> QED BY <1>5, <3>1, <3>2
  <2>2. ASSUME NEW s \in Surfaces, NEW asked \in SUBSET Surfaces, NEW out \in SUBSET Surfaces,
               NEW at \in Outputs, NEW sp \in Spans, Rearrange(s, asked, out, at, sp)
        PROVE  WaitingInv'
    BY <1>5, <2>2 DEF Rearrange, frameVars
  <2> QED BY <1>8, <2>1, <2>2 DEF Policy
<1>9. CASE Turn \/ \E o \in Outputs : Flip(o)
  <2>1. CASE \/ StartFrame \/ TakeFrameList
             \/ \E o \in Outputs : ComposeAndFlip(o) \/ CompletePointerFlip(o)
    BY <1>1, <2>1 DEF StartFrame, TakeFrameList, ComposeAndFlip, CompletePointerFlip, nodeVars,
       slots, bufVars, frameVars
  <2> QED BY <1>6, <1>9, <2>1, Waiting_End DEF Turn, Flip, ComposeNothing, ComposeAtOnce,
          CompleteFlip
<1>10. CASE Hotplug
  <2>1. ASSUME NEW o \in Outputs, NEW asked \in SUBSET Surfaces, NEW out \in SUBSET Surfaces,
               DetachDisplay(o, asked, out)
        PROVE  WaitingInv'
    <3>1. \/ EndFrameOn(o, asked, out, TRUE)
          \/ UNCHANGED <<nodes, presenting, presentingIn, inflight, deferred>>
      BY <2>1 DEF DetachDisplay, nodeVars, slots
    <3> QED BY <1>1, <3>1, Waiting_End
  <2>2. ASSUME NEW o \in Outputs, NEW target, NEW asked \in SUBSET Surfaces,
               NEW out \in SUBSET Surfaces, RemoveOutput(o, target, asked, out)
        PROVE  WaitingInv'
    BY <1>5, <2>2 DEF RemoveOutput, frameVars
  <2>3. ASSUME NEW o \in Outputs, AddOutput(o) PROVE WaitingInv'
    <3>1. PICK orphans \in SUBSET Surfaces :
            /\ UNCHANGED <<nodes, inflight>> /\ LeaveAndAsk(orphans, {})
            /\ Release(LetGo(orphans, {}), inflight, {}, FALSE)
      BY <1>0, <2>3 DEF AddOutput, NodeTypes, frameVars
    <3> QED BY <1>5, <3>1
  <2> QED BY <1>10, <2>1, <2>2, <2>3 DEF Hotplug
<1>11. CASE UNCHANGED vars
  BY <1>1, <1>11 DEF vars, nodeVars, slots, bufVars, frameVars
<1> QED BY <1>7, <1>8, <1>9, <1>10, <1>11 DEF Next

\* Frames in flight and what waits for them, for every behaviour of the scene.
LEMMA SceneFrames_FramesInv == Spec => [](TypeOK /\ FramesInv /\ WaitingInv)
BY TypeOK_Init, TypeOK_Next, FramesInv_Init, FramesInv_Next, WaitingInv_Next, PTL DEF Spec

\* For any screens, surfaces and clients, nothing waits for a frame that will never
\* end: however displays come and go, what is presenting is in a frame in flight, and
\* between turns every frame in flight has its flip on the way (Scene::begin, end,
\* release, Compositor::frame, detach_display, remove_output).
THEOREM SceneFrames_NothingStranded == Spec => []NothingStranded
<1>1. FramesInv /\ WaitingInv => NothingStranded
  BY DEF FramesInv, WaitingInv, Begun, NothingStranded, Idle
<1> QED BY <1>1, SceneFrames_FramesInv, PTL

-----------------------------------------------------------------------------
(* Where buffers are.                                                        *)

\* A buffer of a client that keeps to the protocol.
Own(b) == ClientOf[b] \in Careful

\* No slot of surface s holds buffer b beside another.
Once(s, b) ==
    /\ ~(displayed[s] = b /\ presenting[s] = b)
    /\ ~(displayed[s] = b /\ queued[s] = b)
    /\ ~(presenting[s] = b /\ queued[s] = b)

\* Nothing refers to buffer b.
Nowhere(b) == /\ \A s \in Surfaces : b \notin Held(s)
              /\ b \notin DeferredBuffers

\* Only its client's surfaces hold a buffer; a buffer of a careful client is its
\* client's, held once, or waits once, for as long as the scene knows it.
PlaceOf(b) ==
    /\ \A s \in Surfaces : b \in Held(s) => s \in nodes /\ ClientOf[b] = ClientOf[s]
    /\ Own(b) =>
         /\ b \in retired => registry[b] = "none"
         /\ registry[b] = "fresh" => Nowhere(b)
         /\ b \in free => registry[b] = "attached" /\ Nowhere(b)
         /\ \A s \in Surfaces : b \in Held(s) =>
                /\ Registered(b) /\ Once(s, b) /\ b \notin DeferredBuffers
                /\ \A t \in Surfaces : b \in Held(t) => t = s
         /\ Registered(b) =>
                /\ clients[ClientOf[b]] = "connected" /\ b \in stored
                /\ b \in free \/ ~Nowhere(b)
                /\ \A d, e \in deferred : d.buffer = b /\ e.buffer = b => d = e

PlaceInv == \A b \in Buffers : PlaceOf(b)

\* What is left of a release that waits once only the frames F are in flight.
Cut(d, F) == [surface |-> d.surface, buffer |-> d.buffer, frames |-> d.frames \cap F]

\* The releases that wait after one, one by one.
LEMMA Deferred_Is ==
    ASSUME TypeOK, NEW R, R \subseteq Surfaces \X Buffers, NEW F, F \subseteq Outputs,
           NEW given, NEW drain, Release(R, F, given, drain)
    PROVE  /\ \A e \in deferred' : \E d \in deferred \cup Later(R, F) :
                  d.frames \cap F # {} /\ e = Cut(d, F) /\ e.buffer = d.buffer
           /\ \A d \in deferred \cup Later(R, F) : d.frames \cap F # {} => Cut(d, F) \in deferred'
<1>1. deferred \cup Later(R, F) \subseteq Waiting
  BY Later_Type, Types_Are DEF BufferTypes
<1>2. \A d \in deferred \cup Later(R, F) : [d EXCEPT !.frames = @ \cap F] = Cut(d, F)
  <2> SUFFICES ASSUME NEW d \in Waiting PROVE [d EXCEPT !.frames = @ \cap F] = Cut(d, F)
    BY <1>1
  <2> DEFINE e == [d EXCEPT !.frames = @ \cap F]
  <2>1. /\ e \in Waiting /\ e.surface = d.surface /\ e.buffer = d.buffer
        /\ e.frames = d.frames \cap F
    BY DEF Waiting
  <2> HIDE DEF e
  <2>2. PICK s \in Surfaces, b \in Buffers, f \in SUBSET Outputs :
            e = [surface |-> s, buffer |-> b, frames |-> f]
    BY <2>1 DEF Waiting
  <2>3. e.surface = s /\ e.buffer = b /\ e.frames = f
    BY <2>2
  <2>4. e = Cut(d, F)
    BY <2>1, <2>2, <2>3 DEF Cut
  <2> QED BY <2>4 DEF e
<1>3. deferred' = {[d EXCEPT !.frames = @ \cap F] :
                      d \in (deferred \cup Later(R, F)) \ Over(R, F)}
  BY Release_Is
<1>4. \A d \in deferred \cup Later(R, F) : d \notin Over(R, F) <=> d.frames \cap F # {}
  BY DEF Over
<1>5. ASSUME NEW e \in deferred'
      PROVE  \E d \in deferred \cup Later(R, F) :
                 d.frames \cap F # {} /\ e = Cut(d, F) /\ e.buffer = d.buffer
  <2>1. PICK d \in (deferred \cup Later(R, F)) \ Over(R, F) : e = [d EXCEPT !.frames = @ \cap F]
    BY <1>3
  <2>2. e = Cut(d, F)
    BY <1>2, <2>1
  <2>3. e.buffer = d.buffer
    BY <2>2 DEF Cut
  <2> QED BY <1>4, <2>1, <2>2, <2>3
<1>6. ASSUME NEW d \in deferred \cup Later(R, F), d.frames \cap F # {}
      PROVE  Cut(d, F) \in deferred'
  BY <1>2, <1>3, <1>4, <1>6
<1> QED BY <1>5, <1>6

\* The releases of R that wait, one by one.
LEMMA Later_Is ==
    ASSUME NEW R, R \subseteq Surfaces \X Buffers, NEW F
    PROVE  /\ \A d \in Later(R, F) : \E s \in Surfaces, b \in Buffers :
                  /\ <<s, b>> \in R /\ Reading(s, F) # {} /\ d.buffer = b
                  /\ d = [surface |-> s, buffer |-> b, frames |-> Reading(s, F)]
           /\ \A s \in Surfaces, b \in Buffers :
                  <<s, b>> \in R /\ Reading(s, F) # {} =>
                      [surface |-> s, buffer |-> b, frames |-> Reading(s, F)] \in Later(R, F)
<1>1. ASSUME NEW d \in Later(R, F)
      PROVE  \E s \in Surfaces, b \in Buffers :
                 /\ <<s, b>> \in R /\ Reading(s, F) # {} /\ d.buffer = b
                 /\ d = [surface |-> s, buffer |-> b, frames |-> Reading(s, F)]
  <2>1. PICK r \in R : /\ Reading(r[1], F) # {}
                       /\ d = [surface |-> r[1], buffer |-> r[2], frames |-> Reading(r[1], F)]
    BY DEF Later
  <2>2. r[1] \in Surfaces /\ r[2] \in Buffers /\ r = <<r[1], r[2]>>
    OBVIOUS
  <2>3. d.buffer = r[2]
    BY <2>1
  <2> QED BY <2>1, <2>2, <2>3
<1>2. ASSUME NEW s \in Surfaces, NEW b \in Buffers, <<s, b>> \in R, Reading(s, F) # {}
      PROVE  [surface |-> s, buffer |-> b, frames |-> Reading(s, F)] \in Later(R, F)
  <2>1. <<s, b>>[1] = s /\ <<s, b>>[2] = b
    OBVIOUS
  <2> QED BY <1>2, <2>1 DEF Later
<1> QED BY <1>1, <1>2

\* The releases of R that nothing waits for, one by one.
LEMMA Now_Is ==
    ASSUME NEW R, R \subseteq Surfaces \X Buffers, NEW F, NEW b
    PROVE  b \in Now(R, F) <=> \E s \in Surfaces : <<s, b>> \in R /\ Reading(s, F) = {}
<1>1. ASSUME b \in Now(R, F) PROVE \E s \in Surfaces : <<s, b>> \in R /\ Reading(s, F) = {}
  <2>1. PICK r \in R : Reading(r[1], F) = {} /\ b = r[2]
    BY <1>1 DEF Now
  <2>2. r[1] \in Surfaces /\ r = <<r[1], r[2]>>
    OBVIOUS
  <2> QED BY <2>1, <2>2
<1>2. ASSUME NEW s \in Surfaces, <<s, b>> \in R, Reading(s, F) = {} PROVE b \in Now(R, F)
  <2>1. <<s, b>>[1] = s /\ <<s, b>>[2] = b
    OBVIOUS
  <2> QED BY <1>2, <2>1 DEF Now
<1> QED BY <1>1, <1>2

\* No surface lets go of buffer b.
Unreleased(R, b) == \A s \in Surfaces : <<s, b>> \notin R

\* A buffer a release leaves alone.
Untouched(R, F, given, b) ==
    /\ registry'[b] = registry[b]
    /\ b \in free' <=> b \in free \ given
    /\ b \notin DeferredBuffers' /\ b \notin Gone(R, F)

\* A buffer no surface and no release waiting refers to, and that is not released.
LEMMA Release_Untouched ==
    ASSUME TypeOK, NEW R, R \subseteq Surfaces \X Buffers, NEW F, F \subseteq Outputs,
           NEW given, NEW drain, Release(R, F, given, drain), NEW b \in Buffers,
           Unreleased(R, b), b \notin DeferredBuffers
    PROVE  Untouched(R, F, given, b)
<1> USE DEF Unreleased
<1>1. b \notin Now(R, F)
  BY Now_Is
<1>2. \A d \in deferred \cup Later(R, F) : d.buffer # b
  <2>1. ASSUME NEW d \in Later(R, F), d.buffer = b PROVE FALSE
    <3>1. PICK t \in Surfaces, c \in Buffers : <<t, c>> \in R /\ d.buffer = c
      BY Later_Is
    <3> QED BY <2>1, <3>1
  <2> QED BY <2>1 DEF DeferredBuffers
<1>3. b \notin Ended(R, F) /\ b \notin Gone(R, F)
  BY <1>1, <1>2 DEF Ended, Over, Gone
<1>4. b \notin DeferredBuffers'
  <2> SUFFICES ASSUME NEW e \in deferred', e.buffer = b PROVE FALSE
    BY DEF DeferredBuffers
  <2>1. PICK d \in deferred \cup Later(R, F) : e.buffer = d.buffer
    BY Deferred_Is
  <2> QED BY <1>2, <2>1
<1> QED BY <1>1, <1>3, <1>4, Release_Is DEF Untouched

\* A buffer nothing refers to any longer: its client's again, or gone if destroyed.
Back(R, F, given, b) ==
    /\ b \notin DeferredBuffers'
    /\ registry[b] = "attached" => registry'[b] = "attached" /\ b \in free' /\ b \notin Gone(R, F)
    /\ registry[b] = "destroyed" => registry'[b] = "none" /\ (b \in free' => b \in free \ given)

\* A buffer whose one release, d, still waits.
StillWaits(R, F, given, b, d) ==
    /\ registry'[b] = registry[b] /\ b \notin Gone(R, F)
    /\ b \in free' <=> b \in free \ given
    /\ d \in deferred' /\ d.buffer = b
    /\ \A e \in deferred' : e.buffer = b => e = d

\* The release of buffer b by surface s, waiting for the frames of F that read it.
Awaiting(s, b, F) == [surface |-> s, buffer |-> b, frames |-> Reading(s, F)]

\* A buffer one surface lets go of: its release waits for the frames that read it,
\* or it is its client's again, or it is gone if it was destroyed.
LEMMA Release_Pair ==
    ASSUME TypeOK, NEW R, R \subseteq Surfaces \X Buffers, NEW F, F \subseteq Outputs,
           NEW given, NEW drain, Release(R, F, given, drain), NEW b \in Buffers,
           NEW s \in Surfaces, <<s, b>> \in R, \A t \in Surfaces : <<t, b>> \in R => t = s,
           b \notin DeferredBuffers, b \notin HeldBy(nodes)', Registered(b),
           clients[ClientOf[b]] = "connected"
    PROVE  /\ Reading(s, F) = {} => Back(R, F, given, b)
           /\ Reading(s, F) # {} => StillWaits(R, F, given, b, Awaiting(s, b, F))
<1> DEFINE d0 == Awaiting(s, b, F)
<1>1. \A d \in Later(R, F) : d.buffer = b => d = d0 /\ Reading(s, F) # {}
  <2> SUFFICES ASSUME NEW d \in Later(R, F), d.buffer = b
               PROVE  d = d0 /\ Reading(s, F) # {}
    OBVIOUS
  <2>1. PICK t \in Surfaces, c \in Buffers :
            /\ <<t, c>> \in R /\ Reading(t, F) # {} /\ d.buffer = c
            /\ d = [surface |-> t, buffer |-> c, frames |-> Reading(t, F)]
    BY Later_Is
  <2>2. c = b /\ t = s
    BY <2>1
  <2> QED BY <2>1, <2>2 DEF Awaiting
<1>2. \A d \in deferred : d.buffer # b
  BY DEF DeferredBuffers
<1>3. CASE Reading(s, F) = {}
  <2>1. b \in Now(R, F)
    BY <1>3, Now_Is
  <2>2. \A d \in deferred \cup Later(R, F) : d.buffer # b
    BY <1>1, <1>2, <1>3
  <2>3. b \notin Ended(R, F) /\ b \notin {d.buffer : d \in deferred \cup Later(R, F)}
    BY <2>2 DEF Ended, Over
  <2>4. b \notin DeferredBuffers'
    <3> SUFFICES ASSUME NEW e \in deferred', e.buffer = b PROVE FALSE
      BY DEF DeferredBuffers
    <3>1. PICK d \in deferred \cup Later(R, F) : e.buffer = d.buffer
      BY Deferred_Is
    <3> QED BY <2>2, <3>1
  <2>5. b \in Gone(R, F) <=> registry[b] = "destroyed"
    BY <2>1, <2>3 DEF Gone, Registered
  <2> QED BY <1>3, <2>1, <2>3, <2>4, <2>5, Release_Is DEF Back
<1>4. CASE Reading(s, F) # {}
  <2>1. b \notin Now(R, F)
    BY <1>4, Now_Is
  <2>2. d0 \in Later(R, F)
    BY <1>4, Later_Is DEF Awaiting
  <2>3. d0.buffer = b /\ d0.surface = s /\ d0.frames = Reading(s, F)
    BY DEF Awaiting
  <2>4. d0.frames \cap F = Reading(s, F)
    BY <2>3 DEF Reading
  <2>5. Cut(d0, F) = d0
    BY <2>3, <2>4 DEF Cut, Awaiting
  <2>6. b \notin Ended(R, F)
    BY <1>1, <1>2, <1>4, <2>4 DEF Ended, Over
  <2>7. d0 \in deferred'
    BY <1>4, <2>2, <2>4, <2>5, Deferred_Is
  <2>8. \A e \in deferred' : e.buffer = b => e = d0
    <3> SUFFICES ASSUME NEW e \in deferred', e.buffer = b PROVE e = d0
      OBVIOUS
    <3>1. PICK d \in deferred \cup Later(R, F) : e = Cut(d, F)
      BY Deferred_Is
    <3>2. d.buffer = b
      BY <3>1 DEF Cut
    <3> QED BY <1>1, <1>2, <2>5, <3>1, <3>2
  <2>9. b \notin Gone(R, F)
    BY <2>1, <2>6 DEF Gone
  <2> QED BY <1>4, <2>1, <2>3, <2>6, <2>7, <2>8, <2>9, Release_Is DEF StillWaits
<1> QED BY <1>3, <1>4

\* A buffer whose release waits and that is not released again.
LEMMA Release_Waits ==
    ASSUME TypeOK, NEW R, R \subseteq Surfaces \X Buffers, NEW F, F \subseteq Outputs,
           NEW given, NEW drain, Release(R, F, given, drain), NEW b \in Buffers,
           Unreleased(R, b), NEW d0 \in deferred, d0.buffer = b,
           \A d \in deferred : d.buffer = b => d = d0,
           b \notin HeldBy(nodes)', Registered(b), clients[ClientOf[b]] = "connected"
    PROVE  /\ d0.frames \cap F = {} => Back(R, F, given, b)
           /\ d0.frames \cap F # {} => StillWaits(R, F, given, b, Cut(d0, F))
<1> USE DEF Unreleased
<1>1. \A d \in deferred \cup Later(R, F) : d.buffer = b => d = d0
  <2>1. ASSUME NEW d \in Later(R, F), d.buffer = b PROVE FALSE
    <3>1. PICK t \in Surfaces, c \in Buffers : <<t, c>> \in R /\ d.buffer = c
      BY Later_Is
    <3> QED BY <2>1, <3>1
  <2> QED BY <2>1
<1>2. b \notin Now(R, F)
  BY Now_Is
<1>3. \A e \in deferred' : e.buffer = b => e = Cut(d0, F) /\ d0.frames \cap F # {}
  <2> SUFFICES ASSUME NEW e \in deferred', e.buffer = b
               PROVE  e = Cut(d0, F) /\ d0.frames \cap F # {}
    OBVIOUS
  <2>1. PICK d \in deferred \cup Later(R, F) : d.frames \cap F # {} /\ e = Cut(d, F)
    BY Deferred_Is
  <2>2. d.buffer = b
    BY <2>1 DEF Cut
  <2> QED BY <1>1, <2>1, <2>2
<1>4. CASE d0.frames \cap F = {}
  <2>1. b \in Ended(R, F)
    BY <1>4 DEF Ended, Over
  <2>2. b \notin DeferredBuffers'
    BY <1>3, <1>4 DEF DeferredBuffers
  <2>3. b \in Gone(R, F) <=> registry[b] = "destroyed"
    BY <2>1 DEF Gone, Registered
  <2> QED BY <1>4, <2>1, <2>2, <2>3, Release_Is DEF Back
<1>5. CASE d0.frames \cap F # {}
  <2>1. b \notin Ended(R, F)
    BY <1>1, <1>5 DEF Ended, Over
  <2>2. b \notin Gone(R, F)
    BY <1>2, <2>1 DEF Gone
  <2>3. Cut(d0, F) \in deferred'
    BY <1>5, Deferred_Is
  <2>4. Cut(d0, F).buffer = b
    BY DEF Cut
  <2> QED BY <1>2, <1>3, <1>5, <2>1, <2>2, <2>3, <2>4, Release_Is DEF StillWaits
<1> QED BY <1>4, <1>5

\* The surfaces' slots after a step that lets go of R, as buffer b sees it: nobody new
\* holds it, and of the surfaces that held it once, those of R do no longer.
SettlesFor(R, b) ==
    /\ \A s \in Surfaces : b \in Held(s)' =>
           b \in Held(s) /\ s \in nodes' /\ (queued'[s] = b => queued[s] = b)
    /\ \A s \in Surfaces : <<s, b>> \in R => b \in Held(s)
    /\ Own(b) => \A s \in Surfaces : b \in Held(s) /\ Once(s, b) =>
                     /\ <<s, b>> \in R <=> b \notin Held(s)'
                     /\ Once(s, b)'

\* A step of the scene that lets go of R while the frames F are in flight.
LetsGo(R, F, given, drain) ==
    /\ R \subseteq Surfaces \X Buffers /\ F \subseteq Outputs /\ nodes' \subseteq Surfaces
    /\ Release(R, F, given, drain) /\ UNCHANGED clients

\* A buffer that keeps its registration keeps its memory, and is not retired.
LEMMA Release_Memory ==
    ASSUME NEW R, NEW F, NEW given, NEW drain, Release(R, F, given, drain), NEW b,
           b \notin Gone(R, F), b \notin retired
    PROVE  b \notin retired' /\ (b \in stored => b \in stored')
BY Release_Is

\* Where a buffer no surface holds may be: gone, its client's, or waiting once.
LEMMA Place_Landed ==
    ASSUME NEW b, \A s \in Surfaces : b \notin Held(s)', registry'[b] # "fresh",
           \/ registry'[b] = "none" /\ b \notin free'
           \/ /\ Registered(b)' /\ b \notin retired' /\ b \in stored'
              /\ clients'[ClientOf[b]] = "connected"
              /\ \/ b \in free' /\ registry'[b] = "attached" /\ b \notin DeferredBuffers'
                 \/ /\ b \notin free'
                    /\ \E d \in deferred' : /\ d.buffer = b
                                           /\ \A e \in deferred' : e.buffer = b => e = d
    PROVE  PlaceOf(b)'
<1>1. CASE registry'[b] = "none" /\ b \notin free'
  BY <1>1 DEF PlaceOf, Registered
<1>2. ASSUME Registered(b)', b \notin retired', b \in stored', clients'[ClientOf[b]] = "connected",
             b \in free', registry'[b] = "attached", b \notin DeferredBuffers'
      PROVE  PlaceOf(b)'
  <2>1. \A d \in deferred' : d.buffer # b
    BY <1>2 DEF DeferredBuffers
  <2>2. Nowhere(b)'
    BY <1>2 DEF Nowhere
  <2> QED BY <1>2, <2>1, <2>2 DEF PlaceOf
<1>3. ASSUME Registered(b)', b \notin retired', b \in stored', clients'[ClientOf[b]] = "connected",
             b \notin free', NEW d \in deferred', d.buffer = b,
             \A e \in deferred' : e.buffer = b => e = d
      PROVE  PlaceOf(b)'
  <2>1. b \in DeferredBuffers'
    BY <1>3 DEF DeferredBuffers
  <2>2. ~Nowhere(b)'
    BY <2>1 DEF Nowhere
  <2> QED BY <1>3, <2>2 DEF PlaceOf
<1> QED BY <1>1, <1>2, <1>3

\* A step that lets go of R keeps every other buffer where it is, and every buffer it
\* lets go of in one place.
LEMMA Place_Settled ==
    ASSUME TypeOK, NEW R, NEW F, NEW given, NEW drain, LetsGo(R, F, given, drain),
           NEW b \in Buffers, PlaceOf(b), b \notin given, SettlesFor(R, b)
    PROVE  PlaceOf(b)'
<1> USE DEF LetsGo
<1>0. registry'[b] \in {registry[b], "none"}
  BY Release_Is
<1>1. \A s \in Surfaces : b \in Held(s)' => s \in nodes' /\ ClientOf[b] = ClientOf[s]
  BY DEF SettlesFor, PlaceOf
<1>2. CASE ~Own(b)
  BY <1>1, <1>2 DEF PlaceOf, Own
<1> SUFFICES ASSUME Own(b) PROVE PlaceOf(b)'
  BY <1>2
<1>r. R \subseteq Surfaces \X Buffers /\ F \subseteq Outputs /\ Release(R, F, given, drain)
  OBVIOUS
<1>u. ASSUME Unreleased(R, b), b \notin DeferredBuffers
      PROVE  Untouched(R, F, given, b)
  BY <1>u, <1>r, Release_Untouched
<1>p. ASSUME NEW s \in Surfaces, <<s, b>> \in R, \A t \in Surfaces : <<t, b>> \in R => t = s,
             b \notin DeferredBuffers, b \notin HeldBy(nodes)', Registered(b),
             clients[ClientOf[b]] = "connected"
      PROVE  /\ Reading(s, F) = {} => Back(R, F, given, b)
             /\ Reading(s, F) # {} => StillWaits(R, F, given, b, Awaiting(s, b, F))
  BY <1>p, <1>r, Release_Pair
<1>w. ASSUME Unreleased(R, b), NEW d0 \in deferred, d0.buffer = b,
             \A d \in deferred : d.buffer = b => d = d0, b \notin HeldBy(nodes)',
             Registered(b), clients[ClientOf[b]] = "connected"
      PROVE  /\ d0.frames \cap F = {} => Back(R, F, given, b)
             /\ d0.frames \cap F # {} => StillWaits(R, F, given, b, Cut(d0, F))
  BY <1>w, <1>r, Release_Waits
<1>3. ASSUME registry[b] = "fresh" PROVE PlaceOf(b)'
  <2>1. (\A s \in Surfaces : b \notin Held(s)) /\ b \notin DeferredBuffers /\ b \notin free
        /\ b \notin retired
    BY <1>3 DEF PlaceOf, Nowhere
  <2>2. (\A s \in Surfaces : <<s, b>> \notin R) /\ \A s \in Surfaces : b \notin Held(s)'
    BY <2>1 DEF SettlesFor
  <2>3. registry'[b] = "fresh" /\ b \notin free' /\ b \notin DeferredBuffers' /\ b \notin Gone(R, F)
    BY <1>3, <2>1, <2>2, <1>u DEF Unreleased, Untouched
  <2>4. b \notin retired'
    BY <2>1, <2>3, Release_Memory
  <2> QED BY <2>2, <2>3, <2>4 DEF PlaceOf, Nowhere, Registered
<1>4. ASSUME registry[b] = "none" PROVE PlaceOf(b)'
  <2>1. (\A s \in Surfaces : b \notin Held(s)) /\ b \notin free
    BY <1>4 DEF PlaceOf, Registered
  <2>2. \A s \in Surfaces : b \notin Held(s)'
    BY <2>1 DEF SettlesFor
  <2>3. registry'[b] = "none" /\ b \notin free'
    BY <1>0, <1>4, <2>1, Release_Is
  <2> QED BY <2>2, <2>3 DEF PlaceOf, Nowhere, Registered
<1>5. ASSUME Registered(b) PROVE PlaceOf(b)'
  <2>1. /\ clients'[ClientOf[b]] = "connected" /\ clients[ClientOf[b]] = "connected"
        /\ b \in stored /\ b \notin retired
        /\ b \in free \/ ~Nowhere(b)
    BY <1>5 DEF PlaceOf, Registered
  <2>r. registry[b] = "attached" \/ registry[b] = "destroyed"
    BY <1>5 DEF Registered
  <2>w. \A d, e \in deferred : d.buffer = b /\ e.buffer = b => d = e
    BY <1>5 DEF PlaceOf
  <2>2. CASE b \in free
    <3>1. (\A s \in Surfaces : b \notin Held(s)) /\ b \notin DeferredBuffers
          /\ registry[b] = "attached"
      BY <2>2 DEF PlaceOf, Nowhere
    <3>2. (\A s \in Surfaces : <<s, b>> \notin R) /\ \A s \in Surfaces : b \notin Held(s)'
      BY <3>1 DEF SettlesFor
    <3>3. registry'[b] = "attached" /\ b \in free' /\ b \notin DeferredBuffers' /\ b \notin Gone(R, F)
      BY <2>2, <3>1, <3>2, <1>u DEF Unreleased, Untouched
    <3>4. b \notin retired' /\ b \in stored'
      BY <2>1, <3>3, Release_Memory
    <3> QED BY <2>1, <3>2, <3>3, <3>4, <2>r, Place_Landed DEF Registered
  <2>3. ASSUME NEW s \in Surfaces, b \in Held(s), b \in Held(s)' PROVE PlaceOf(b)'
    <3>1. /\ Once(s, b) /\ b \notin DeferredBuffers /\ b \notin free
          /\ \A t \in Surfaces : b \in Held(t) => t = s
      BY <2>3 DEF PlaceOf, Nowhere
    <3>2. /\ \A t \in Surfaces : <<t, b>> \notin R
          /\ \A t \in Surfaces : b \in Held(t)' => t = s
          /\ Once(s, b)'
      BY <2>3, <3>1 DEF SettlesFor
    <3>3. registry'[b] = registry[b] /\ b \notin free' /\ b \notin DeferredBuffers' /\ b \notin Gone(R, F)
      BY <3>1, <3>2, <1>u DEF Unreleased, Untouched
    <3>4. b \notin retired' /\ b \in stored'
      BY <2>1, <3>3, Release_Memory
    <3>5. \A d \in deferred' : d.buffer # b
      BY <3>3 DEF DeferredBuffers
    <3>6. Registered(b)' /\ ~Nowhere(b)' /\ registry'[b] # "fresh"
      BY <2>3, <2>r, <3>3 DEF Registered, Nowhere
    <3>7. \A t \in Surfaces : b \in Held(t)' => Once(t, b)'
      BY <3>2
    <3>8. \A t, u \in Surfaces : b \in Held(t)' /\ b \in Held(u)' => u = t
      BY <3>2
    <3> QED BY <1>1, <2>1, <3>3, <3>4, <3>5, <3>6, <3>7, <3>8 DEF PlaceOf
  <2>4. ASSUME NEW s \in Surfaces, b \in Held(s), b \notin Held(s)' PROVE PlaceOf(b)'
    <3>1. /\ Once(s, b) /\ b \notin DeferredBuffers /\ b \notin free
          /\ \A t \in Surfaces : b \in Held(t) => t = s
      BY <2>4 DEF PlaceOf, Nowhere
    <3>2. /\ <<s, b>> \in R /\ \A t \in Surfaces : <<t, b>> \in R => t = s
          /\ \A t \in Surfaces : b \notin Held(t)'
      BY <2>4, <3>1 DEF SettlesFor
    <3>3. b \notin HeldBy(nodes)'
      BY <3>2 DEF HeldBy
    <3>4. CASE Reading(s, F) = {}
      <4>1. CASE registry[b] = "attached"
        <5>1. /\ registry'[b] = "attached" /\ b \in free' /\ b \notin Gone(R, F)
              /\ b \notin DeferredBuffers'
          BY <1>5, <2>1, <3>1, <3>2, <3>3, <3>4, <4>1, <1>p DEF Back, StillWaits
        <5>2. b \notin retired' /\ b \in stored'
          BY <2>1, <5>1, Release_Memory
        <5> QED BY <2>1, <3>2, <5>1, <5>2, <2>r, Place_Landed DEF Registered
      <4>2. CASE registry[b] = "destroyed"
        <5>1. registry'[b] = "none" /\ b \notin free'
          BY <1>5, <2>1, <3>1, <3>2, <3>3, <3>4, <4>2, <1>p DEF Back, StillWaits
        <5> QED BY <3>2, <5>1, Place_Landed
      <4> QED BY <2>r, <4>1, <4>2
    <3>5. CASE Reading(s, F) # {}
      <4>1. /\ registry'[b] = registry[b] /\ b \notin Gone(R, F) /\ b \notin free'
            /\ \E d \in deferred' : d.buffer = b /\ \A e \in deferred' : e.buffer = b => e = d
        BY <1>5, <2>1, <3>1, <3>2, <3>3, <3>5, <1>p DEF Back, StillWaits
      <4>2. b \notin retired' /\ b \in stored'
        BY <2>1, <4>1, Release_Memory
      <4> QED BY <2>1, <3>2, <4>1, <4>2, <2>r, Place_Landed DEF Registered
    <3> QED BY <3>4, <3>5
  <2>5. ASSUME NEW d0 \in deferred, d0.buffer = b, \A s \in Surfaces : b \notin Held(s)
        PROVE  PlaceOf(b)'
    <3>1. (\A s \in Surfaces : <<s, b>> \notin R) /\ (\A s \in Surfaces : b \notin Held(s)')
          /\ \A d \in deferred : d.buffer = b => d = d0
      BY <2>5, <2>w DEF SettlesFor
    <3>2. b \notin HeldBy(nodes)' /\ b \notin free
      BY <2>5, <3>1 DEF HeldBy, PlaceOf, Nowhere, DeferredBuffers
    <3>4. CASE d0.frames \cap F = {}
      <4>1. CASE registry[b] = "attached"
        <5>1. /\ registry'[b] = "attached" /\ b \in free' /\ b \notin Gone(R, F)
              /\ b \notin DeferredBuffers'
          BY <1>5, <2>1, <2>5, <3>1, <3>2, <3>4, <4>1, <1>w DEF Back, StillWaits, Unreleased
        <5>2. b \notin retired' /\ b \in stored'
          BY <2>1, <5>1, Release_Memory
        <5> QED BY <2>1, <3>1, <5>1, <5>2, <2>r, Place_Landed DEF Registered
      <4>2. CASE registry[b] = "destroyed"
        <5>1. registry'[b] = "none" /\ b \notin free'
          BY <1>5, <2>1, <2>5, <3>1, <3>2, <3>4, <4>2, <1>w DEF Back, StillWaits, Unreleased
        <5> QED BY <3>1, <5>1, Place_Landed
      <4> QED BY <2>r, <4>1, <4>2
    <3>5. CASE d0.frames \cap F # {}
      <4>1. /\ registry'[b] = registry[b] /\ b \notin Gone(R, F) /\ b \notin free'
            /\ \E d \in deferred' : d.buffer = b /\ \A e \in deferred' : e.buffer = b => e = d
        BY <1>5, <2>1, <2>5, <3>1, <3>2, <3>5, <1>w DEF Back, StillWaits, Unreleased
      <4>2. b \notin retired' /\ b \in stored'
        BY <2>1, <4>1, Release_Memory
      <4> QED BY <2>1, <3>1, <4>1, <4>2, <2>r, Place_Landed DEF Registered
    <3> QED BY <3>4, <3>5
  <2>6. \/ b \in free \/ \E s \in Surfaces : b \in Held(s)
        \/ \E d0 \in deferred : d0.buffer = b
    BY <2>1 DEF Nowhere, DeferredBuffers
  <2> QED BY <2>2, <2>3, <2>4, <2>5, <2>6
<1> QED BY <1>3, <1>4, <1>5 DEF TypeOK, Registered

\* A step that settles what buffer b sees of it while the frames F are in flight.
Settled(F, given, b) == \E R, drain : LetsGo(R, F, given, drain) /\ SettlesFor(R, b)

\* Such a step keeps in one place every buffer it was not given.
LEMMA Place_Step ==
    ASSUME TypeOK, NEW F, NEW given, NEW b \in Buffers, Settled(F, given, b), PlaceOf(b),
           b \notin given
    PROVE  PlaceOf(b)'
BY Place_Settled DEF Settled

\* A step that leaves a buffer in its place.
LEMMA Place_Same ==
    ASSUME NEW b, PlaceOf(b),
           \A s \in Surfaces : (b \in Held(s)' <=> b \in Held(s)) /\ (Once(s, b) => Once(s, b)'),
           \A s \in Surfaces : b \in Held(s) /\ s \in nodes => s \in nodes',
           \A d \in deferred \cup deferred' : d.buffer = b => (d \in deferred' <=> d \in deferred),
           registry'[b] = registry[b], b \in free' <=> b \in free,
           b \in stored /\ b \notin retired => b \in stored', b \in retired' => b \in retired,
           clients[ClientOf[b]] = "connected" => clients'[ClientOf[b]] = "connected"
    PROVE  PlaceOf(b)'
<1>1. (b \in DeferredBuffers' <=> b \in DeferredBuffers) /\ (Nowhere(b)' <=> Nowhere(b))
  BY DEF DeferredBuffers, Nowhere
<1>2. Registered(b)' <=> Registered(b)
  BY DEF Registered
<1>3. Registered(b) => registry[b] # "none"
  BY DEF Registered
<1>4. \A d, e \in deferred' : d.buffer = b /\ e.buffer = b => d \in deferred /\ e \in deferred
  OBVIOUS
<1> QED BY <1>1, <1>2, <1>3, <1>4 DEF PlaceOf

\* The surfaces of A let go of everything, and those of Q of what they queued.
LEMMA Settles_Emptied ==
    ASSUME TypeOK, NEW A, NEW Q, Q \cap A = {}, NEW R,
           R = HeldPairs(A) \cup {<<s, queued[s]>> : s \in Q},
           displayed' = Emptied(displayed, A), presenting' = Emptied(presenting, A),
           queued' = Emptied(queued, A \cup Q), nodes \ A \subseteq nodes',
           NEW b \in Buffers, PlaceOf(b)
    PROVE  SettlesFor(R, b)
<1>0. b # None
  OBVIOUS
<1>1. \A s \in Surfaces : <<s, b>> \in R <=> (s \in A /\ b \in Held(s)) \/ (s \in Q /\ queued[s] = b)
  BY HeldPairs_Is
<1>2. \A s \in Surfaces : s \in A => b \notin Held(s)'
  BY <1>0 DEF Held, Emptied
<1>3. \A s \in Surfaces : s \notin A =>
          /\ displayed'[s] = displayed[s] /\ presenting'[s] = presenting[s]
          /\ queued'[s] = IF s \in Q THEN None ELSE queued[s]
  BY DEF Emptied
<1>4. \A s \in Surfaces : b \in Held(s) <=> displayed[s] = b \/ presenting[s] = b \/ queued[s] = b
  BY <1>0 DEF Held
<1>5. \A s \in Surfaces :
          b \in Held(s)' <=> displayed'[s] = b \/ presenting'[s] = b \/ queued'[s] = b
  BY <1>0 DEF Held
<1>6. ASSUME NEW s \in Surfaces, b \in Held(s)'
      PROVE  b \in Held(s) /\ s \in nodes' /\ (queued'[s] = b => queued[s] = b)
  <2>1. s \notin A /\ b \in Held(s) /\ (queued'[s] = b => queued[s] = b)
    BY <1>0, <1>2, <1>3, <1>4, <1>5, <1>6
  <2> QED BY <2>1 DEF PlaceOf
<1>7. ASSUME NEW s \in Surfaces, <<s, b>> \in R PROVE b \in Held(s)
  BY <1>1, <1>4, <1>7
<1>8. ASSUME NEW s \in Surfaces, b \in Held(s), Once(s, b)
      PROVE  (<<s, b>> \in R <=> b \notin Held(s)') /\ Once(s, b)'
  <2>1. CASE s \in A
    <3>1. displayed'[s] = None /\ presenting'[s] = None /\ queued'[s] = None
      BY <2>1 DEF Emptied
    <3> QED BY <1>0, <1>1, <1>2, <1>8, <2>1, <3>1 DEF Once
  <2>2. CASE s \notin A
    BY <1>0, <1>1, <1>3, <1>4, <1>5, <1>8, <2>2 DEF Once
  <2> QED BY <2>1, <2>2
<1> QED BY <1>6, <1>7, <1>8 DEF SettlesFor

\* A frame that ends: what it showed replaces what was displayed.
LEMMA Settles_End ==
    ASSUME TypeOK, NEW o \in Outputs, NEW asked \in SUBSET Surfaces, NEW out \in SUBSET Surfaces,
           NEW drain, EndFrameOn(o, asked, out, drain), NEW b \in Buffers, PlaceOf(b)
    PROVE  Settled(inflight', {}, b)
<1> DEFINE A == Fallen(out)
           Q == Dropped(asked, out)
           shown == {s \in nodes : presenting[s] # None /\ presentingIn[s] = o}
           old == {<<s, displayed[s]>> : s \in {t \in shown : displayed[t] # None}}
           R == old \cup LetGo(asked, out)
<1>0. b # None /\ NodeTypes /\ SlotTypes
  BY Types_Are
<1>1. Release(R, inflight', {}, drain) /\ nodes' = nodes
  BY DEF EndFrameOn
<1>2. R \subseteq Surfaces \X Buffers
  <2>1. LetGo(asked, out) \subseteq Surfaces \X Buffers
    BY <1>0, LetGo_Type
  <2>2. \A s \in shown : s \in Surfaces /\ (displayed[s] # None => displayed[s] \in Buffers)
    BY <1>0 DEF NodeTypes, SlotTypes, OrNone
  <2> QED BY <2>1, <2>2
<1>3. \A s \in Surfaces :
          /\ s \in A => displayed'[s] = None /\ presenting'[s] = None /\ queued'[s] = None
          /\ s \notin A =>
               /\ displayed'[s] = IF s \in shown THEN presenting[s] ELSE displayed[s]
               /\ presenting'[s] = IF s \in shown THEN None ELSE presenting[s]
               /\ queued'[s] = IF s \in Q THEN None ELSE queued[s]
  BY DEF EndFrameOn, Emptied
<1>4. Q \cap A = {}
  BY DEF Dropped
<1>5. \A s \in Surfaces : <<s, b>> \in R <=>
          \/ s \in A /\ b \in Held(s)
          \/ s \in Q /\ queued[s] = b
          \/ s \in shown /\ displayed[s] = b
  BY <1>0, HeldPairs_Is DEF LetGo
<1>6. \A s \in Surfaces : b \in Held(s) <=> displayed[s] = b \/ presenting[s] = b \/ queued[s] = b
  BY <1>0 DEF Held
<1>7. \A s \in Surfaces :
          b \in Held(s)' <=> displayed'[s] = b \/ presenting'[s] = b \/ queued'[s] = b
  BY <1>0 DEF Held
<1> HIDE DEF A, Q, shown, R
<1>8. ASSUME NEW s \in Surfaces, b \in Held(s)'
      PROVE  b \in Held(s) /\ s \in nodes' /\ (queued'[s] = b => queued[s] = b)
  <2>1. s \notin A /\ b \in Held(s) /\ (queued'[s] = b => queued[s] = b)
    BY <1>0, <1>3, <1>6, <1>7, <1>8
  <2> QED BY <1>1, <2>1 DEF PlaceOf
<1>9. ASSUME NEW s \in Surfaces, <<s, b>> \in R PROVE b \in Held(s)
  BY <1>5, <1>6, <1>9
<1>10. ASSUME NEW s \in Surfaces, b \in Held(s), Once(s, b)
       PROVE  (<<s, b>> \in R <=> b \notin Held(s)') /\ Once(s, b)'
  <2>1. CASE s \in A
    BY <1>0, <1>3, <1>5, <1>7, <1>10, <2>1 DEF Once
  <2>2. CASE s \notin A /\ s \in shown
    BY <1>0, <1>3, <1>5, <1>6, <1>7, <1>10, <2>2 DEF Once
  <2>3. CASE s \notin A /\ s \notin shown
    BY <1>0, <1>3, <1>5, <1>6, <1>7, <1>10, <2>3 DEF Once
  <2> QED BY <2>1, <2>2, <2>3
<1>11. SettlesFor(R, b)
  BY <1>8, <1>9, <1>10 DEF SettlesFor
<1>12. inflight' \subseteq Outputs /\ nodes' \subseteq Surfaces /\ UNCHANGED clients
  BY Types_Are DEF EndFrameOn, FrameTypes, NodeTypes
<1>13. LetsGo(R, inflight', {}, drain)
  BY <1>1, <1>2, <1>12 DEF LetsGo
<1> QED BY <1>11, <1>13 DEF Settled

\* Surfaces dismissed, and surfaces asked for new content.
LEMMA Settles_Leave ==
    ASSUME TypeOK, NEW asked \in SUBSET Surfaces, NEW out \in SUBSET Surfaces, NEW drain,
           LeaveAndAsk(asked, out), Release(LetGo(asked, out), inflight, {}, drain),
           UNCHANGED <<clients, nodes>>, NEW b \in Buffers, PlaceOf(b)
    PROVE  Settled(inflight, {}, b)
<1> DEFINE R == LetGo(asked, out)
<1>0. NodeTypes /\ SlotTypes /\ FrameTypes
  BY Types_Are
<1>1. R \subseteq Surfaces \X Buffers /\ inflight \subseteq Outputs /\ nodes' \subseteq Surfaces
  BY <1>0, LetGo_Type DEF FrameTypes, NodeTypes
<1>3. SettlesFor(R, b)
  <2>1. Dropped(asked, out) \cap Fallen(out) = {}
    BY DEF Dropped
  <2>2. /\ displayed' = Emptied(displayed, Fallen(out))
        /\ presenting' = Emptied(presenting, Fallen(out))
        /\ queued' = Emptied(queued, Fallen(out) \cup Dropped(asked, out))
        /\ nodes \ Fallen(out) \subseteq nodes'
    BY DEF LeaveAndAsk
  <2>3. R = HeldPairs(Fallen(out)) \cup {<<s, queued[s]>> : s \in Dropped(asked, out)}
    BY DEF LetGo
  <2> QED BY <2>1, <2>2, <2>3, Settles_Emptied
<1>4. LetsGo(R, inflight, {}, drain)
  BY <1>1 DEF LetsGo
<1> HIDE DEF R
<1> QED BY <1>3, <1>4 DEF Settled

\* A surface destroyed, and everything under it dismissed.
LEMMA Settles_Destroy ==
    ASSUME TypeOK, NEW s0 \in Surfaces, Destroy(s0), NEW b \in Buffers, PlaceOf(b)
    PROVE  Settled(inflight, {}, b)
<1> DEFINE A == {s0} \cup Below(s0)
           R == HeldPairs(A)
<1>0. NodeTypes /\ SlotTypes /\ FrameTypes
  BY Types_Are
<1>1. /\ nodes' = nodes \ {s0} /\ TakeAll(A) /\ Release(R, inflight, {}, TRUE)
      /\ UNCHANGED clients
  BY DEF Destroy
<1>2. A \subseteq Surfaces
  BY <1>0 DEF Below, NodeTypes
<1>3. R \subseteq Surfaces \X Buffers /\ inflight \subseteq Outputs /\ nodes' \subseteq Surfaces
  BY <1>0, <1>1, <1>2, HeldPairs_Type DEF FrameTypes, NodeTypes
<1>5. SettlesFor(R, b)
  <2>1. R = HeldPairs(A) \cup {<<s, queued[s]>> : s \in {}} /\ {} \cap A = {} /\ A \cup {} = A
    OBVIOUS
  <2>2. /\ displayed' = Emptied(displayed, A) /\ presenting' = Emptied(presenting, A)
        /\ queued' = Emptied(queued, A \cup {}) /\ nodes \ A \subseteq nodes'
    BY <1>1, <2>1 DEF TakeAll
  <2> HIDE DEF A, R
  <2> QED BY <2>1, <2>2, Settles_Emptied
<1>6. LetsGo(R, inflight, {}, TRUE)
  BY <1>1, <1>3 DEF LetsGo
<1> HIDE DEF R
<1> QED BY <1>5, <1>6 DEF Settled

\* A frame queued in place of another, as every buffer but its own sees it.
LEMMA Settles_Submit ==
    ASSUME TypeOK, NEW s0 \in Surfaces, NEW b0 \in Buffers, Submit(s0, b0),
           NEW b \in Buffers, b # b0, PlaceOf(b)
    PROVE  Settled(inflight, {b0}, b)
<1> DEFINE R == Superseded(s0)
<1>1. /\ UNCHANGED <<clients, nodes, displayed, presenting>>
      /\ queued' = [queued EXCEPT ![s0] = b0]
      /\ Release(R, inflight, {b0}, TRUE)
      /\ b0 \notin Held(s0) /\ s0 \in nodes /\ ClientOf[b0] = ClientOf[s0]
      /\ registry[b0] = "attached" /\ b0 \notin DeferredBuffers /\ (Own(b0) => b0 \in free)
  BY DEF Submit, MaySubmit, nodeVars, Own
<1>2. R \subseteq Surfaces \X Buffers /\ inflight \subseteq Outputs
      /\ nodes' \subseteq Surfaces
  BY <1>1, Types_Are, Superseded_Type DEF FrameTypes, NodeTypes
<1>4. b # None
  OBVIOUS
<1>5. \A s \in Surfaces : queued'[s] = IF s = s0 THEN b0 ELSE queued[s]
  BY <1>1 DEF TypeOK
<1>6. \A s \in Surfaces : <<s, b>> \in R <=> s = s0 /\ queued[s] = b
  BY <1>4 DEF Superseded
<1> HIDE DEF R
<1>7. \A s \in Surfaces : b \in Held(s) <=> displayed[s] = b \/ presenting[s] = b \/ queued[s] = b
  BY <1>4 DEF Held
<1>8. \A s \in Surfaces :
          b \in Held(s)' <=> displayed[s] = b \/ presenting[s] = b \/ queued'[s] = b
  BY <1>1, <1>4 DEF Held
<1>9. \A s \in Surfaces : b \in Held(s)' =>
          b \in Held(s) /\ s \in nodes' /\ (queued'[s] = b => queued[s] = b)
  BY <1>1, <1>5, <1>7, <1>8 DEF PlaceOf
<1>10. \A s \in Surfaces : <<s, b>> \in R => b \in Held(s)
  BY <1>6, <1>7
<1>11. \A s \in Surfaces : b \in Held(s) /\ Once(s, b) =>
           (<<s, b>> \in R <=> b \notin Held(s)') /\ Once(s, b)'
  BY <1>1, <1>5, <1>6, <1>7, <1>8 DEF Once
<1>12. SettlesFor(R, b)
  BY <1>9, <1>10, <1>11 DEF SettlesFor
<1>13. LetsGo(R, inflight, {b0}, TRUE)
  BY <1>1, <1>2 DEF LetsGo
<1> QED BY <1>12, <1>13 DEF Settled

\* A frame refused, as every buffer but its own sees it.
LEMMA Settles_Discarded ==
    ASSUME TypeOK, NEW s0 \in Surfaces, NEW b0 \in Buffers, SubmitDiscarded(s0, b0),
           NEW b \in Buffers, b # b0, PlaceOf(b)
    PROVE  Settled(inflight, {b0}, b)
<1> DEFINE R == {<<s0, b0>>}
<1>1. /\ UNCHANGED <<clients, nodes, displayed, presenting, queued>>
      /\ Release(R, inflight, {b0}, TRUE)
  BY DEF SubmitDiscarded, nodeVars, slots
<1>2. R \subseteq Surfaces \X Buffers /\ inflight \subseteq Outputs /\ nodes' \subseteq Surfaces
  BY <1>1, Types_Are DEF FrameTypes, NodeTypes
<1>3. \A s \in Surfaces : (Held(s)' = Held(s)) /\ (Once(s, b)' <=> Once(s, b))
  BY <1>1 DEF Held, Once
<1>4. SettlesFor(R, b)
  BY <1>1, <1>3 DEF SettlesFor, PlaceOf
<1>5. LetsGo(R, inflight, {b0}, TRUE)
  BY <1>1, <1>2 DEF LetsGo
<1> HIDE DEF R
<1> QED BY <1>4, <1>5 DEF Settled

\* At the start no buffer is attached.
LEMMA PlaceInv_Init == Init => PlaceInv
<1> SUFFICES ASSUME Init, NEW b \in Buffers PROVE PlaceOf(b)
  BY DEF PlaceInv
<1>1. \A s \in Surfaces : Held(s) = {}
  BY DEF Init, Held
<1>2. registry[b] = "fresh" /\ b \notin free /\ b \notin retired /\ deferred = {}
  BY DEF Init
<1> QED BY <1>1, <1>2 DEF PlaceOf, Nowhere, DeferredBuffers, Registered

\* A new buffer is its client's; the others stay where they are.
LEMMA Place_Attach ==
    ASSUME TypeOK, PlaceInv, NEW b0 \in Buffers, NEW gpu \in BOOLEAN, Attach(b0, gpu),
           NEW b \in Buffers
    PROVE  PlaceOf(b)'
<1>1. /\ UNCHANGED <<nodes, displayed, presenting, queued, deferred, clients>>
      /\ registry' = [registry EXCEPT ![b0] = "attached"] /\ free' = free \cup {b0}
      /\ Connected(ClientOf[b0])
      /\ registry[b0] = "fresh" \/ (registry[b0] = "none" /\ ClientOf[b0] \notin Careful)
  <2>1. UNCHANGED <<nodeVars, slots, deferred, clients>>
    BY DEF Attach
  <2> QED BY <2>1 DEF Attach, nodeVars, slots
<1>2. /\ b \in stored /\ b \notin retired => b \in stored'
      /\ b \in retired' => b \in retired
      /\ b0 \notin retired => b0 \in stored'
  BY DEF Attach
<1>3. \A s \in Surfaces : (Held(s)' = Held(s)) /\ (Once(s, b)' <=> Once(s, b))
  BY <1>1 DEF Held, Once
<1>4. PlaceOf(b)
  BY DEF PlaceInv
<1>5. CASE b # b0
  <2>1. registry'[b] = registry[b] /\ (b \in free' <=> b \in free)
    BY <1>1, <1>5 DEF TypeOK
  <2> QED BY <1>1, <1>2, <1>3, <1>4, <2>1, Place_Same
<1>6. CASE b = b0 /\ Own(b)
  <2>1. registry[b] = "fresh"
    BY <1>1, <1>6 DEF Own
  <2>2. Nowhere(b) /\ b \notin retired
    BY <1>4, <1>6, <2>1 DEF PlaceOf
  <2>3. registry'[b] = "attached" /\ b \in free' /\ clients'[ClientOf[b]] = "connected"
    BY <1>1, <1>6 DEF TypeOK, Connected
  <2>4. (\A s \in Surfaces : b \notin Held(s)') /\ b \notin DeferredBuffers'
    BY <1>1, <1>3, <2>2 DEF Nowhere, DeferredBuffers
  <2>5. b \in stored' /\ b \notin retired'
    BY <1>2, <1>6, <2>2
  <2> QED BY <2>3, <2>4, <2>5, Place_Landed DEF Registered
<1>7. CASE ~Own(b)
  BY <1>1, <1>3, <1>4, <1>7 DEF PlaceOf, Own
<1> QED BY <1>5, <1>6, <1>7

\* A buffer destroyed waits, as it did, for what refers to it.
LEMMA Place_DestroyBuffer ==
    ASSUME TypeOK, PlaceInv, NEW b0 \in Buffers, DestroyBuffer(b0), NEW b \in Buffers
    PROVE  PlaceOf(b)'
<1> DEFINE used == b0 \in HeldBy(nodes) \cup DeferredBuffers
<1>1. /\ UNCHANGED <<nodes, displayed, presenting, queued, deferred, clients>>
      /\ registry' = [registry EXCEPT ![b0] = IF used THEN "destroyed" ELSE "none"]
      /\ free' = free \ {b0} /\ registry[b0] = "attached"
  <2>1. UNCHANGED <<nodeVars, slots, deferred, clients>>
    BY DEF DestroyBuffer
  <2> QED BY <2>1 DEF DestroyBuffer, nodeVars, slots
<1>2. /\ b \in stored /\ b \notin retired /\ (b # b0 \/ used) => b \in stored'
      /\ b \notin retired'
  BY DEF DestroyBuffer
<1>3. \A s \in Surfaces : (Held(s)' = Held(s)) /\ (Once(s, b)' <=> Once(s, b))
  BY <1>1 DEF Held, Once
<1>4. PlaceOf(b) /\ PlaceOf(b0)
  BY DEF PlaceInv
<1>5. CASE b # b0
  <2>1. registry'[b] = registry[b] /\ (b \in free' <=> b \in free)
    BY <1>1, <1>5 DEF TypeOK
  <2> QED BY <1>1, <1>2, <1>3, <1>4, <1>5, <2>1, Place_Same
<1>6. CASE b = b0 /\ Own(b) /\ used
  <2>1. registry'[b] = "destroyed" /\ b \notin free'
    BY <1>1, <1>6 DEF TypeOK
  <2>2. /\ clients'[ClientOf[b]] = "connected" /\ b \in stored'
        /\ \A d, e \in deferred' : d.buffer = b /\ e.buffer = b => d = e
    <3>1. Registered(b) /\ b \notin retired
      BY <1>1, <1>4, <1>6 DEF Registered, PlaceOf
    <3> QED BY <1>1, <1>2, <1>4, <1>6, <3>1 DEF PlaceOf
  <2>3. ~Nowhere(b)'
    <3>1. b \in DeferredBuffers \/ \E s \in Surfaces : b \in Held(s)
      BY <1>6 DEF HeldBy, TypeOK
    <3> QED BY <1>1, <1>3, <3>1 DEF Nowhere, DeferredBuffers
  <2>4. \A s \in Surfaces : b \in Held(s)' =>
            /\ s \in nodes' /\ ClientOf[b] = ClientOf[s]
            /\ Once(s, b)' /\ b \notin DeferredBuffers'
            /\ \A t \in Surfaces : b \in Held(t)' => t = s
    BY <1>1, <1>3, <1>4, <1>6 DEF PlaceOf, DeferredBuffers
  <2>5. Registered(b)' /\ registry'[b] # "fresh" /\ b \notin retired'
    BY <1>2, <2>1 DEF Registered
  <2> QED BY <2>1, <2>2, <2>3, <2>4, <2>5 DEF PlaceOf
<1>7. CASE b = b0 /\ ~used
  <2>1. registry'[b] = "none" /\ b \notin free'
    BY <1>1, <1>7 DEF TypeOK
  <2>2. \A s \in Surfaces : b \notin Held(s)'
    BY <1>3, <1>4, <1>7 DEF HeldBy, PlaceOf
  <2> QED BY <2>1, <2>2, Place_Landed
<1>8. CASE ~Own(b)
  BY <1>1, <1>3, <1>4, <1>8 DEF PlaceOf, Own
<1> QED BY <1>5, <1>6, <1>7, <1>8

\* A frame queued: its buffer is the surface's, and the one it replaces is released.
LEMMA Place_Submit ==
    ASSUME TypeOK, PlaceInv, NEW s0 \in Surfaces, NEW b0 \in Buffers, Submit(s0, b0),
           NEW b \in Buffers
    PROVE  PlaceOf(b)'
<1> DEFINE R == Superseded(s0)
<1>1. /\ UNCHANGED <<clients, nodes, displayed, presenting>>
      /\ queued' = [queued EXCEPT ![s0] = b0]
      /\ Release(R, inflight, {b0}, TRUE)
      /\ b0 \notin Held(s0) /\ s0 \in nodes /\ ClientOf[b0] = ClientOf[s0]
      /\ registry[b0] = "attached" /\ b0 \notin DeferredBuffers /\ (Own(b0) => b0 \in free)
  BY DEF Submit, MaySubmit, nodeVars, Own
<1>2. R \subseteq Surfaces \X Buffers /\ inflight \subseteq Outputs
      /\ nodes' \subseteq Surfaces
  BY <1>1, Types_Are, Superseded_Type DEF FrameTypes, NodeTypes
<1>3. PlaceOf(b)
  BY DEF PlaceInv
<1>4. b # None
  OBVIOUS
<1>5. \A s \in Surfaces : queued'[s] = IF s = s0 THEN b0 ELSE queued[s]
  BY <1>1 DEF TypeOK
<1>6. \A s \in Surfaces : <<s, b>> \in R <=> s = s0 /\ queued[s] = b
  BY <1>4 DEF Superseded
<1> HIDE DEF R
<1>7. \A s \in Surfaces : b \in Held(s) <=> displayed[s] = b \/ presenting[s] = b \/ queued[s] = b
  BY <1>4 DEF Held
<1>8. \A s \in Surfaces :
          b \in Held(s)' <=> displayed[s] = b \/ presenting[s] = b \/ queued'[s] = b
  BY <1>1, <1>4 DEF Held
<1>9. CASE b # b0
  <2>1. Settled(inflight, {b0}, b) /\ b \notin {b0}
    BY <1>3, <1>9, Settles_Submit
  <2> QED BY <1>3, <2>1, Place_Step
<1>10. CASE b = b0 /\ Own(b)
  <2>1. (\A s \in Surfaces : b \notin Held(s)) /\ Registered(b) /\ b \notin retired
    BY <1>1, <1>3, <1>10 DEF PlaceOf, Nowhere, Registered
  <2>2. \A s \in Surfaces : <<s, b>> \notin R
    BY <1>6, <1>7, <2>1
  <2>3. /\ registry'[b] = registry[b] /\ b \notin free'
        /\ b \notin DeferredBuffers' /\ b \notin Gone(R, inflight)
    <3>1. Unreleased(R, b) /\ b \notin DeferredBuffers
      BY <1>1, <1>10, <2>2 DEF Unreleased
    <3>2. Untouched(R, inflight, {b0}, b)
      BY <1>1, <1>2, <3>1, Release_Untouched
    <3> QED BY <1>10, <3>2 DEF Untouched
  <2>4. b \notin retired' /\ (b \in stored => b \in stored')
    BY <1>1, <2>1, <2>3, Release_Memory
  <2>5. b \in stored' /\ clients'[ClientOf[b]] = "connected"
    BY <1>1, <1>3, <1>10, <2>1, <2>4 DEF PlaceOf
  <2>6. \A s \in Surfaces : b \in Held(s)' => s = s0 /\ Once(s, b)'
    BY <1>1, <1>5, <1>7, <1>8, <2>1 DEF Once
  <2>7. b \in Held(s0)' /\ ~Nowhere(b)'
    BY <1>5, <1>8, <1>10 DEF Nowhere
  <2>8. Registered(b)' /\ registry'[b] # "fresh"
    BY <2>1, <2>3 DEF Registered
  <2>9. \A d \in deferred' : d.buffer # b
    BY <2>3 DEF DeferredBuffers
  <2> QED BY <1>1, <1>10, <2>3, <2>4, <2>5, <2>6, <2>7, <2>8, <2>9 DEF PlaceOf
<1>11. CASE ~Own(b) /\ b = b0
  <2>1. \A s \in Surfaces : b \in Held(s)' => s \in nodes' /\ ClientOf[b] = ClientOf[s]
    BY <1>1, <1>3, <1>5, <1>7, <1>8, <1>11 DEF PlaceOf
  <2> QED BY <1>11, <2>1 DEF PlaceOf, Own
<1> QED BY <1>9, <1>10, <1>11

\* A frame refused: its buffer is released again.
LEMMA Place_SubmitDiscarded ==
    ASSUME TypeOK, PlaceInv, NEW s0 \in Surfaces, NEW b0 \in Buffers, SubmitDiscarded(s0, b0),
           NEW b \in Buffers
    PROVE  PlaceOf(b)'
<1> DEFINE R == {<<s0, b0>>}
<1>1. /\ UNCHANGED <<clients, nodes, displayed, presenting, queued>>
      /\ Release(R, inflight, {b0}, TRUE)
      /\ registry[b0] = "attached" /\ b0 \notin DeferredBuffers /\ (Own(b0) => b0 \in free)
  BY DEF SubmitDiscarded, MaySubmit, nodeVars, slots, Own
<1>2. R \subseteq Surfaces \X Buffers /\ inflight \subseteq Outputs /\ nodes' \subseteq Surfaces
  BY <1>1, Types_Are DEF FrameTypes, NodeTypes
<1>3. PlaceOf(b)
  BY DEF PlaceInv
<1>4. \A s \in Surfaces : (Held(s)' = Held(s)) /\ (Once(s, b)' <=> Once(s, b))
  BY <1>1 DEF Held, Once
<1>5. CASE b # b0
  <2>1. Settled(inflight, {b0}, b) /\ b \notin {b0}
    BY <1>3, <1>5, Settles_Discarded
  <2> QED BY <1>3, <2>1, Place_Step
<1>6. CASE b = b0 /\ Own(b)
  <2>1. (\A s \in Surfaces : b \notin Held(s)) /\ Registered(b) /\ b \notin retired
    BY <1>1, <1>3, <1>6 DEF PlaceOf, Nowhere, Registered
  <2>2. b \notin HeldBy(nodes)' /\ clients[ClientOf[b]] = "connected" /\ b \in stored
    <3>1. \A s \in nodes' : s \in Surfaces
      BY <1>2
    <3> QED BY <1>3, <1>4, <1>6, <2>1, <3>1 DEF PlaceOf, HeldBy
  <2>3. <<s0, b>> \in R /\ \A t \in Surfaces : <<t, b>> \in R => t = s0
    BY <1>6
  <2>4. \/ Back(R, inflight, {b0}, b)
        \/ StillWaits(R, inflight, {b0}, b, Awaiting(s0, b, inflight))
    BY <1>1, <1>2, <1>6, <2>1, <2>2, <2>3, Release_Pair
  <2>5. b \notin Gone(R, inflight) /\ registry'[b] = "attached"
    BY <1>1, <1>6, <2>4 DEF Back, StillWaits
  <2>6. b \notin retired' /\ b \in stored'
    BY <1>1, <2>1, <2>2, <2>5, Release_Memory
  <2>7. \/ b \in free' /\ b \notin DeferredBuffers'
        \/ /\ b \notin free'
           /\ \E d \in deferred' : d.buffer = b /\ \A e \in deferred' : e.buffer = b => e = d
    BY <1>1, <1>6, <2>4 DEF Back, StillWaits
  <2> QED BY <1>1, <1>4, <2>1, <2>2, <2>5, <2>6, <2>7, Place_Landed DEF Registered
<1>7. CASE ~Own(b)
  BY <1>1, <1>3, <1>4, <1>7 DEF PlaceOf, Own
<1> QED BY <1>5, <1>6, <1>7

\* A client that goes takes its buffers along, and nobody else's.
LEMMA Place_Disconnect ==
    ASSUME TypeOK, PlaceInv, NEW c \in Clients, Disconnect(c), NEW b \in Buffers
    PROVE  PlaceOf(b)'
<1> DEFINE mine == {s \in nodes : ClientOf[s] = c}
           own == {x \in Buffers : ClientOf[x] = c}
<1>1. /\ clients' = [clients EXCEPT ![c] = "gone"] /\ nodes' = nodes \ mine /\ TakeAll(mine)
      /\ deferred' = deferred \cup Later(HeldPairs(mine), inflight)
      /\ registry' = [x \in Buffers |-> IF x \in own THEN "none" ELSE registry[x]]
      /\ stored' = stored \ (own \cup retired) /\ retired' = {} /\ free' = free \ own
  BY DEF Disconnect, Later
<1>2. \A x \in Buffers : PlaceOf(x)
  BY DEF PlaceInv
<1>3. \A s \in Surfaces :
          /\ s \in mine => displayed'[s] = None /\ presenting'[s] = None /\ queued'[s] = None
          /\ s \notin mine => /\ displayed'[s] = displayed[s] /\ presenting'[s] = presenting[s]
                              /\ queued'[s] = queued[s]
  BY <1>1 DEF TakeAll, Emptied
<1>4. \A s \in Surfaces : /\ s \in mine => Held(s)' = {}
                          /\ s \notin mine => Held(s)' = Held(s) /\ (Once(s, b)' <=> Once(s, b))
  BY <1>3 DEF Held, Once
<1>5. CASE b \in own
  <2>1. registry'[b] = "none" /\ b \notin free'
    BY <1>1, <1>5
  <2>2. \A s \in Surfaces : b \notin Held(s)'
    BY <1>2, <1>4, <1>5 DEF PlaceOf
  <2> QED BY <2>1, <2>2, Place_Landed
<1>6. CASE b \notin own
  <2>1. \A s \in Surfaces : b \in Held(s) => s \notin mine
    BY <1>2, <1>6 DEF PlaceOf
  <2>2. \A s \in Surfaces : (b \in Held(s)' <=> b \in Held(s)) /\ (Once(s, b) => Once(s, b)')
    <3>1. \A s \in Surfaces : s \in mine => Once(s, b)'
      BY <1>3 DEF Once
    <3> QED BY <1>4, <2>1, <3>1
  <2>3. \A d \in Later(HeldPairs(mine), inflight) : d.buffer # b
    <3> SUFFICES ASSUME NEW d \in Later(HeldPairs(mine), inflight), d.buffer = b PROVE FALSE
      OBVIOUS
    <3>1. HeldPairs(mine) \subseteq Surfaces \X Buffers
      BY Types_Are, HeldPairs_Type DEF NodeTypes
    <3>2. PICK s \in Surfaces, x \in Buffers : <<s, x>> \in HeldPairs(mine) /\ d.buffer = x
      BY <3>1, Later_Is
    <3>3. s \in mine /\ b \in Held(s)
      BY <3>2, HeldPairs_Is
    <3> QED BY <2>1, <3>3
  <2>4. \A d \in deferred \cup deferred' : d.buffer = b => (d \in deferred' <=> d \in deferred)
    BY <1>1, <2>3
  <2>5. registry'[b] = registry[b] /\ (b \in free' <=> b \in free)
        /\ (b \in stored /\ b \notin retired => b \in stored') /\ b \notin retired'
    BY <1>1, <1>6
  <2>6. clients'[ClientOf[b]] = clients[ClientOf[b]]
    BY <1>1, <1>6 DEF TypeOK
  <2>7. \A s \in Surfaces : b \in Held(s) /\ s \in nodes => s \in nodes'
    BY <1>1, <2>1
  <2> QED BY <1>2, <2>2, <2>4, <2>5, <2>6, <2>7, Place_Same
<1> QED BY <1>5, <1>6

\* A frame begun moves what was queued; every surface holds what it held.
LEMMA Place_Begin ==
    ASSUME TypeOK, PlaceInv, NEW o \in Outputs, NEW sp \in [Surfaces -> Spans],
           BeginFrameOn(o, sp), NEW b \in Buffers
    PROVE  PlaceOf(b)'
<1>1. /\ UNCHANGED <<clients, nodes, displayed, registry, deferred, retired, stored, free>>
      /\ presenting' = [s \in Surfaces |-> IF s \in Starting(o) THEN queued[s] ELSE presenting[s]]
      /\ queued' = Emptied(queued, Starting(o))
  BY DEF BeginFrameOn, bufVars
<1>2. \A s \in Surfaces :
          /\ s \in Starting(o) =>
                presenting[s] = None /\ presenting'[s] = queued[s] /\ queued'[s] = None
          /\ s \notin Starting(o) => presenting'[s] = presenting[s] /\ queued'[s] = queued[s]
  BY <1>1 DEF Starting, Emptied
<1>3. b # None
  OBVIOUS
<1>4. \A s \in Surfaces : (b \in Held(s)' <=> b \in Held(s)) /\ (Once(s, b) => Once(s, b)')
  BY <1>1, <1>2, <1>3 DEF Held, Once
<1>5. PlaceOf(b)
  BY DEF PlaceInv
<1> QED BY <1>1, <1>4, <1>5, Place_Same

\* Steps that let go.
LEMMA Place_LetGo ==
    ASSUME TypeOK, PlaceInv, NEW F, NEW b \in Buffers, PlaceOf(b) => Settled(F, {}, b)
    PROVE  PlaceOf(b)'
<1>1. PlaceOf(b) /\ b \notin {}
  BY DEF PlaceInv
<1> QED BY <1>1, Place_Step

\* Steps that move no buffer, though retired memory may go.
LEMMA Place_Idle ==
    ASSUME PlaceInv, NEW b \in Buffers,
           UNCHANGED <<displayed, presenting, queued, registry, deferred, free>>,
           nodes \subseteq nodes', stored \ retired \subseteq stored', retired' \subseteq retired,
           clients[ClientOf[b]] = "connected" => clients'[ClientOf[b]] = "connected"
    PROVE  PlaceOf(b)'
<1>1. \A s \in Surfaces : (Held(s)' = Held(s)) /\ (Once(s, b)' <=> Once(s, b))
  BY DEF Held, Once
<1>2. PlaceOf(b)
  BY DEF PlaceInv
<1> QED BY <1>1, <1>2, Place_Same

\* Every step leaves every buffer in one place.
LEMMA PlaceInv_Next == TypeOK /\ PlaceInv /\ [Next]_vars => PlaceInv'
<1> SUFFICES ASSUME TypeOK, PlaceInv, [Next]_vars, NEW b \in Buffers PROVE PlaceOf(b)'
  BY DEF PlaceInv
<1>1. CASE UNCHANGED <<nodes, displayed, presenting, queued, registry, deferred, free, stored,
                       retired, clients>>
  BY <1>1, Place_Idle
<1>2. CASE Requests
  <2>1. ASSUME NEW c \in Clients, Connect(c) PROVE PlaceOf(b)'
    <3>1. UNCHANGED <<nodeVars, slots, bufVars>> /\ clients' = [clients EXCEPT ![c] = "connected"]
      BY <2>1 DEF Connect
    <3>2. clients[ClientOf[b]] = "connected" => clients'[ClientOf[b]] = "connected"
      BY <3>1 DEF TypeOK
    <3>3. UNCHANGED <<nodes, displayed, presenting, queued, registry, deferred, free, stored, retired>>
      BY <3>1 DEF nodeVars, slots, bufVars
    <3> QED BY <3>2, <3>3, Place_Idle
  <2>2. ASSUME NEW s \in Surfaces, NEW p \in OrNone(Surfaces), NEW o \in Outputs, NEW sp \in Spans,
               CreateSurface(s, p, o, sp)
        PROVE  PlaceOf(b)'
    <3>1. UNCHANGED <<clients, slots, bufVars>> /\ nodes \subseteq nodes'
      BY <2>2 DEF CreateSurface
    <3>2. UNCHANGED <<displayed, presenting, queued, registry, deferred, free, stored, retired>>
      BY <3>1 DEF slots, bufVars
    <3> QED BY <3>1, <3>2, Place_Idle
  <2>3. CASE OtherRequest
    <3>1. /\ UNCHANGED <<clients, nodeVars, slots, registry, deferred, free>>
          /\ stored \ retired \subseteq stored' /\ retired' \subseteq retired
      BY <2>3 DEF OtherRequest
    <3>2. UNCHANGED <<nodes, displayed, presenting, queued>>
      BY <3>1 DEF nodeVars, slots
    <3> QED BY <3>1, <3>2, Place_Idle
  <2>4. ASSUME NEW c \in Clients, Disconnect(c) PROVE PlaceOf(b)'
    BY <2>4, Place_Disconnect
  <2>5. ASSUME NEW s \in Surfaces, Destroy(s) PROVE PlaceOf(b)'
    BY <2>5, Settles_Destroy, Place_LetGo
  <2>6. ASSUME NEW s \in Surfaces, NEW x \in Buffers, Submit(s, x) PROVE PlaceOf(b)'
    BY <2>6, Place_Submit
  <2>7. ASSUME NEW s \in Surfaces, NEW x \in Buffers, SubmitDiscarded(s, x) PROVE PlaceOf(b)'
    BY <2>7, Place_SubmitDiscarded
  <2>8. ASSUME NEW x \in Buffers, NEW gpu \in BOOLEAN, Attach(x, gpu) PROVE PlaceOf(b)'
    BY <2>8, Place_Attach
  <2>9. ASSUME NEW x \in Buffers, DestroyBuffer(x) PROVE PlaceOf(b)'
    BY <2>9, Place_DestroyBuffer
  <2> QED BY <1>2, <2>1, <2>2, <2>3, <2>4, <2>5, <2>6, <2>7, <2>8, <2>9 DEF Requests
<1>3. CASE Policy
  <2>1. ASSUME NEW s \in Surfaces, Dismiss(s) PROVE PlaceOf(b)'
    <3>1. {} \in SUBSET Surfaces /\ {s} \in SUBSET Surfaces
      OBVIOUS
    <3>2. /\ LeaveAndAsk({}, {s}) /\ Release(LetGo({}, {s}), inflight, {}, FALSE)
          /\ UNCHANGED <<clients, nodes>>
      BY <2>1 DEF Dismiss
    <3> QED BY <3>1, <3>2, Settles_Leave, Place_LetGo
  <2>2. ASSUME NEW s \in Surfaces, NEW asked \in SUBSET Surfaces, NEW out \in SUBSET Surfaces,
               NEW at \in Outputs, NEW sp \in Spans, Rearrange(s, asked, out, at, sp)
        PROVE  PlaceOf(b)'
    <3>1. /\ LeaveAndAsk(asked, out) /\ Release(LetGo(asked, out), inflight, {}, FALSE)
          /\ UNCHANGED <<clients, nodes>>
      BY <2>2 DEF Rearrange
    <3> QED BY <3>1, Settles_Leave, Place_LetGo
  <2> QED BY <1>3, <2>1, <2>2 DEF Policy
<1>4. CASE Turn \/ \E o \in Outputs : Flip(o)
  <2>1. CASE \/ StartFrame \/ TakeFrameList
             \/ \E o \in Outputs : ComposeAndFlip(o) \/ CompletePointerFlip(o)
    <3>1. UNCHANGED <<clients, nodeVars, slots, bufVars>>
      BY <2>1 DEF StartFrame, TakeFrameList, ComposeAndFlip, CompletePointerFlip
    <3> QED BY <1>1, <3>1 DEF nodeVars, slots, bufVars
  <2>2. ASSUME NEW o \in Outputs, NEW sp \in [Surfaces -> Spans], BeginFrameOn(o, sp)
        PROVE  PlaceOf(b)'
    BY <2>2, Place_Begin
  <2>3. ASSUME NEW o \in Outputs, NEW asked \in SUBSET Surfaces, NEW out \in SUBSET Surfaces,
               NEW drain, EndFrameOn(o, asked, out, drain)
        PROVE  PlaceOf(b)'
    BY <2>3, Settles_End, Place_LetGo
  <2> QED BY <1>4, <2>1, <2>2, <2>3 DEF Turn, Flip, ComposeNothing, ComposeAtOnce, CompleteFlip
<1>5. CASE Hotplug
  <2>1. ASSUME NEW o \in Outputs, NEW asked \in SUBSET Surfaces, NEW out \in SUBSET Surfaces,
               DetachDisplay(o, asked, out)
        PROVE  PlaceOf(b)'
    <3>1. CASE EndFrameOn(o, asked, out, TRUE)
      BY <3>1, Settles_End, Place_LetGo
    <3>2. CASE ~EndFrameOn(o, asked, out, TRUE)
      <4>1. /\ UNCHANGED <<clients, nodeVars, slots, registry, deferred, free>>
            /\ stored \ retired \subseteq stored' /\ retired' \subseteq retired
        BY <2>1, <3>2 DEF DetachDisplay
      <4>2. UNCHANGED <<nodes, displayed, presenting, queued>>
        BY <4>1 DEF nodeVars, slots
      <4> QED BY <4>1, <4>2, Place_Idle
    <3> QED BY <3>1, <3>2
  <2>2. ASSUME NEW o \in Outputs, NEW target, NEW asked \in SUBSET Surfaces,
               NEW out \in SUBSET Surfaces, RemoveOutput(o, target, asked, out)
        PROVE  PlaceOf(b)'
    <3>1. /\ LeaveAndAsk(asked, out) /\ Release(LetGo(asked, out), inflight, {}, TRUE)
          /\ UNCHANGED <<clients, nodes>>
      BY <2>2 DEF RemoveOutput
    <3> QED BY <3>1, Settles_Leave, Place_LetGo
  <2>3. ASSUME NEW o \in Outputs, AddOutput(o) PROVE PlaceOf(b)'
    <3>1. PICK orphans \in SUBSET Surfaces :
            /\ UNCHANGED <<clients, nodes>> /\ LeaveAndAsk(orphans, {})
            /\ Release(LetGo(orphans, {}), inflight, {}, FALSE)
      <4>1. nodes \subseteq Surfaces
        BY DEF TypeOK
      <4> QED BY <2>3, <4>1 DEF AddOutput
    <3>2. {} \in SUBSET Surfaces
      OBVIOUS
    <3> QED BY <3>1, <3>2, Settles_Leave, Place_LetGo
  <2> QED BY <1>5, <2>1, <2>2, <2>3 DEF Hotplug
<1>6. CASE UNCHANGED vars
  BY <1>1, <1>6 DEF vars, nodeVars, slots, bufVars
<1> QED BY <1>2, <1>3, <1>4, <1>5, <1>6 DEF Next

\* Where every buffer is, for every behaviour of the scene.
LEMMA SceneFrames_PlaceInv == Spec => [](TypeOK /\ PlaceInv)
BY TypeOK_Init, TypeOK_Next, PlaceInv_Init, PlaceInv_Next, PTL DEF Spec

\* A buffer of a careful client that the scene knows is in one place.
LEMMA Places_One ==
    ASSUME TypeOK, PlaceInv, NEW b \in Buffers, Own(b), Registered(b)
    PROVE  \E x : Places(b) = {x}
<1>0. b # None
  OBVIOUS
<1>1. PlaceOf(b)
  BY DEF PlaceInv
<1>2. \A s \in Surfaces : b \in Held(s) <=> displayed[s] = b \/ presenting[s] = b \/ queued[s] = b
  BY <1>0 DEF Held
<1>3. CASE b \in free
  <2>1. (\A s \in Surfaces : b \notin Held(s)) /\ \A d \in deferred : d.buffer # b
    BY <1>1, <1>3 DEF PlaceOf, Nowhere, DeferredBuffers
  <2>2. \A s \in Surfaces : displayed[s] # b /\ presenting[s] # b /\ queued[s] # b
    BY <1>2, <2>1
  <2> QED BY <1>3, <2>1, <2>2 DEF Places
<1>4. ASSUME NEW s \in Surfaces, b \in Held(s) PROVE \E x : Places(b) = {x}
  <2>1. /\ Once(s, b) /\ b \notin free /\ (\A d \in deferred : d.buffer # b)
        /\ \A t \in Surfaces : b \in Held(t) => t = s
    BY <1>1, <1>4 DEF PlaceOf, Nowhere, DeferredBuffers
  <2>2. \A t \in Surfaces : displayed[t] = b \/ presenting[t] = b \/ queued[t] = b => t = s
    BY <1>2, <2>1
  <2>3. CASE displayed[s] = b
    <3>1. presenting[s] # b /\ queued[s] # b
      BY <2>1, <2>3 DEF Once
    <3>2. Places(b) = {<<"displayed", s>>}
      BY <2>1, <2>2, <2>3, <3>1 DEF Places
    <3> QED BY <3>2
  <2>4. CASE presenting[s] = b
    <3>1. displayed[s] # b /\ queued[s] # b
      BY <2>1, <2>4 DEF Once
    <3>2. Places(b) = {<<"presenting", s>>}
      BY <2>1, <2>2, <2>4, <3>1 DEF Places
    <3> QED BY <3>2
  <2>5. CASE queued[s] = b
    <3>1. displayed[s] # b /\ presenting[s] # b
      BY <2>1, <2>5 DEF Once
    <3>2. Places(b) = {<<"queued", s>>}
      BY <2>1, <2>2, <2>5, <3>1 DEF Places
    <3> QED BY <3>2
  <2> QED BY <1>2, <1>4, <2>3, <2>4, <2>5
<1>5. ASSUME b \notin free, \A s \in Surfaces : b \notin Held(s) PROVE \E x : Places(b) = {x}
  <2>1. PICK d \in deferred : d.buffer = b
    BY <1>1, <1>5 DEF PlaceOf, Nowhere, DeferredBuffers
  <2>2. \A e \in deferred : e.buffer = b => e = d
    BY <1>1, <2>1 DEF PlaceOf
  <2>3. \A s \in Surfaces : displayed[s] # b /\ presenting[s] # b /\ queued[s] # b
    BY <1>2, <1>5
  <2> QED BY <1>5, <2>1, <2>2, <2>3 DEF Places
<1> QED BY <1>3, <1>4, <1>5

\* For any screens, surfaces and clients, a careful client's buffer is in one place as
\* long as the scene knows it, through every submit, flip, dismissal, destruction,
\* unplug and goodbye (Scene::submit, release, release_now, end, remove_node).
THEOREM SceneFrames_BufferInOnePlace == Spec => []BufferInOnePlace
<1>1. TypeOK /\ PlaceInv => BufferInOnePlace
  <2> SUFFICES ASSUME TypeOK, PlaceInv, NEW b \in Buffers, ClientOf[b] \in Careful, Registered(b)
               PROVE  Cardinality(Places(b)) = 1
    BY DEF BufferInOnePlace
  <2>1. PICK x : Places(b) = {x}
    BY Places_One DEF Own
  <2> QED BY <2>1, FS_Singleton
<1> QED BY <1>1, SceneFrames_PlaceInv, PTL

\* Where every client keeps to the protocol, a buffer the scene knows has its memory
\* (Scene.retired, Compositor::retire).
THEOREM SceneFrames_RegisteredHasMemory ==
    ASSUME Careful = Clients
    PROVE  Spec => []RegisteredHasMemory
<1>1. TypeOK /\ PlaceInv => RegisteredHasMemory
  BY DEF PlaceInv, PlaceOf, Own, RegisteredHasMemory
<1> QED BY <1>1, SceneFrames_PlaceInv, PTL

-----------------------------------------------------------------------------
(* What frames read.                                                         *)

\* The frame of screen o keeps buffer b of surface s from its client.
Kept(o, s, b) ==
    /\ Registered(b)
    /\ \/ displayed[s] = b \/ presenting[s] = b
       \/ \E d \in deferred : d.surface = s /\ d.buffer = b /\ o \in d.frames

\* A pair composed for screen o of a surface its frame reads is kept for it.
Reads(o, s, b) ==
    Own(b) => /\ clients[ClientOf[b]] # "new"
              /\ Connected(ClientOf[b]) /\ s \in reads[o] => Kept(o, s, b)

\* Frames in flight keep what they compose, from the moment it is listed.
ReadInv ==
    /\ \A o \in Outputs : o \notin inflight => reads[o] = {} /\ drawn[o] = {}
    /\ \A o \in Outputs, s \in Surfaces, b \in Buffers : <<s, b>> \in drawn[o] => Reads(o, s, b)
    /\ phase = "compose" =>
          \A o \in todo, s \in Surfaces, b \in Buffers : <<s, b>> \in list => Reads(o, s, b)

\* At the start nothing is composed.
LEMMA ReadInv_Init == Init => ReadInv
BY DEF Init, ReadInv

\* A step that lets go keeps what a frame still in flight reads: its release waits.
LEMMA Kept_Settled ==
    ASSUME TypeOK, NEW F, NEW given, NEW b \in Buffers, Settled(F, given, b), PlaceOf(b), Own(b),
           NEW s \in Surfaces, NEW o \in F, s \in reads[o], Kept(o, s, b)
    PROVE  Kept(o, s, b)'
<1>1. PICK R, drain : LetsGo(R, F, given, drain) /\ SettlesFor(R, b)
  BY DEF Settled
<1>2. /\ R \subseteq Surfaces \X Buffers /\ F \subseteq Outputs /\ nodes' \subseteq Surfaces
      /\ Release(R, F, given, drain)
  BY <1>1 DEF LetsGo
<1>3. b # None /\ Registered(b) /\ clients[ClientOf[b]] = "connected"
  BY DEF Kept, PlaceOf
<1>4. o \in Reading(s, F)
  BY DEF Reading
<1>5. CASE displayed[s] = b \/ presenting[s] = b
  <2>1. b \in Held(s)
    BY <1>3, <1>5 DEF Held
  <2>2. /\ Once(s, b) /\ b \notin DeferredBuffers
        /\ \A t \in Surfaces : b \in Held(t) => t = s
    BY <2>1 DEF PlaceOf
  <2>3. CASE b \in Held(s)'
    <3>1. Unreleased(R, b)
      BY <1>1, <2>1, <2>2, <2>3 DEF SettlesFor, Unreleased
    <3>2. Untouched(R, F, given, b)
      BY <1>2, <2>2, <3>1, Release_Untouched
    <3>3. queued'[s] # b
      BY <1>1, <1>5, <2>2, <2>3 DEF SettlesFor, Once
    <3>4. displayed'[s] = b \/ presenting'[s] = b
      BY <2>3, <3>3 DEF Held
    <3> QED BY <1>3, <3>2, <3>4 DEF Kept, Untouched, Registered
  <2>4. CASE b \notin Held(s)'
    <3>1. /\ <<s, b>> \in R /\ \A t \in Surfaces : <<t, b>> \in R => t = s
          /\ \A t \in Surfaces : b \notin Held(t)'
      BY <1>1, <2>1, <2>2, <2>4 DEF SettlesFor
    <3>2. b \notin HeldBy(nodes)'
      BY <1>2, <3>1 DEF HeldBy
    <3>3. StillWaits(R, F, given, b, Awaiting(s, b, F))
      BY <1>2, <1>3, <1>4, <2>2, <3>1, <3>2, Release_Pair
    <3>4. /\ Awaiting(s, b, F).surface = s /\ Awaiting(s, b, F).buffer = b
          /\ Awaiting(s, b, F).frames = Reading(s, F)
      BY DEF Awaiting
    <3> QED BY <1>3, <1>4, <3>3, <3>4 DEF Kept, StillWaits, Registered
  <2> QED BY <2>3, <2>4
<1>6. ASSUME NEW d \in deferred, d.surface = s, d.buffer = b, o \in d.frames
      PROVE  Kept(o, s, b)'
  <2>1. \A t \in Surfaces : b \notin Held(t)
    BY <1>6 DEF PlaceOf, DeferredBuffers
  <2>2. \A e \in deferred : e.buffer = b => e = d
    BY <1>3, <1>6 DEF PlaceOf
  <2>3. Unreleased(R, b) /\ \A t \in Surfaces : b \notin Held(t)'
    BY <1>1, <2>1 DEF SettlesFor, Unreleased
  <2>4. b \notin HeldBy(nodes)'
    BY <1>2, <2>3 DEF HeldBy
  <2>5. d.frames \cap F # {}
    BY <1>6
  <2>6. StillWaits(R, F, given, b, Cut(d, F))
    BY <1>2, <1>3, <1>6, <2>2, <2>3, <2>4, <2>5, Release_Waits
  <2>7. /\ Cut(d, F).surface = s /\ Cut(d, F).buffer = b /\ Cut(d, F).frames = d.frames \cap F
    BY <1>6 DEF Cut
  <2> QED BY <1>3, <1>6, <2>6, <2>7 DEF Kept, StillWaits, Registered
<1> QED BY <1>5, <1>6 DEF Kept

\* Steps that move no buffer and forget none.
LEMMA Kept_Same ==
    ASSUME NEW o, NEW s, NEW b, Kept(o, s, b), UNCHANGED <<displayed, presenting>>,
           deferred \subseteq deferred', Registered(b)'
    PROVE  Kept(o, s, b)'
BY DEF Kept

\* What a step does to frames and clients that leaves their readings as they were.
ReadsStay ==
    /\ \A c \in Clients : clients[c] # "new" =>
           clients'[c] # "new" /\ (Connected(c)' => Connected(c))
    /\ \A o \in Outputs :
           \/ reads'[o] = {} /\ drawn'[o] = {}
           \/ o \in inflight' /\ reads'[o] = reads[o] /\ drawn'[o] = drawn[o]
    /\ phase' = "compose" => phase = "compose" /\ list' = list /\ todo' \subseteq todo

\* A step that leaves the readings as they were and keeps what they keep.
LEMMA Read_Kept ==
    ASSUME TypeOK, ReadInv, ReadsStay,
           \A o \in Outputs, s \in Surfaces, b \in Buffers :
               Own(b) /\ o \in inflight' /\ s \in reads[o] /\ Connected(ClientOf[b])'
                   /\ Kept(o, s, b) => Kept(o, s, b)'
    PROVE  ReadInv'
<1>1. ASSUME NEW o \in Outputs, NEW s \in Surfaces, NEW b \in Buffers, Reads(o, s, b)
      PROVE  Reads(o, s, b)'
  <2> SUFFICES ASSUME Own(b) PROVE Reads(o, s, b)'
    BY DEF Reads, Own
  <2>1. ClientOf[b] \in Clients
    OBVIOUS
  <2>2. clients'[ClientOf[b]] # "new" /\ (Connected(ClientOf[b])' => Connected(ClientOf[b]))
    BY <1>1, <2>1 DEF Reads, ReadsStay
  <2>3. ASSUME Connected(ClientOf[b])', s \in reads'[o] PROVE Kept(o, s, b)'
    <3>1. o \in inflight' /\ s \in reads[o]
      BY <2>3 DEF ReadsStay
    <3>2. Kept(o, s, b)
      BY <1>1, <2>2, <2>3, <3>1 DEF Reads
    <3> QED BY <2>3, <3>1, <3>2
  <2> QED BY <2>2, <2>3 DEF Reads
<1>2. \A o \in Outputs : o \notin inflight' => reads'[o] = {} /\ drawn'[o] = {}
  BY DEF ReadsStay
<1>3. \A o \in Outputs, s \in Surfaces, b \in Buffers : <<s, b>> \in drawn'[o] => Reads(o, s, b)'
  BY <1>1 DEF ReadsStay, ReadInv
<1>4. phase' = "compose" =>
          \A o \in todo', s \in Surfaces, b \in Buffers : <<s, b>> \in list' => Reads(o, s, b)'
  <2> SUFFICES ASSUME phase' = "compose", NEW o \in todo', NEW s \in Surfaces, NEW b \in Buffers,
                      <<s, b>> \in list'
               PROVE  Reads(o, s, b)'
    OBVIOUS
  <2>1. phase = "compose" /\ o \in todo /\ <<s, b>> \in list /\ o \in Outputs
    BY DEF ReadsStay, TypeOK
  <2> QED BY <1>1, <2>1 DEF ReadInv
<1> QED BY <1>2, <1>3, <1>4 DEF ReadInv

\* A step of the scene alone: no frame begins, ends or is composed.
LEMMA Read_Scene ==
    ASSUME TypeOK, ReadInv, UNCHANGED <<inflight, reads, drawn, phase, list, todo>>,
           \A c \in Clients : clients[c] # "new" =>
               clients'[c] # "new" /\ (Connected(c)' => Connected(c)),
           \A o \in Outputs, s \in Surfaces, b \in Buffers :
               Own(b) /\ o \in inflight /\ s \in reads[o] /\ Connected(ClientOf[b])'
                   /\ Kept(o, s, b) => Kept(o, s, b)'
    PROVE  ReadInv'
<1>1. ReadsStay
  BY DEF ReadsStay, ReadInv
<1> QED BY <1>1, Read_Kept

\* A step that lets go, seen by every buffer that is not given to the scene by it.
LEMMA Read_LetGo ==
    ASSUME TypeOK, PlaceInv, ReadInv, NEW F, F = inflight', ReadsStay, NEW given,
           \A b \in Buffers : b \in given /\ Own(b) => b \in free,
           \A b \in Buffers : PlaceOf(b) /\ b \notin given => Settled(F, given, b)
    PROVE  ReadInv'
<1>1. ASSUME NEW o \in Outputs, NEW s \in Surfaces, NEW b \in Buffers, Own(b), o \in inflight',
             s \in reads[o], Kept(o, s, b)
      PROVE  Kept(o, s, b)'
  <2>1. PlaceOf(b)
    BY DEF PlaceInv
  <2>2. b \notin free
    <3> SUFFICES ASSUME Nowhere(b) PROVE FALSE
      BY <1>1, <2>1 DEF PlaceOf
    <3> QED BY <1>1 DEF Kept, Nowhere, Held, DeferredBuffers
  <2>3. Settled(F, given, b)
    BY <1>1, <2>1, <2>2
  <2> QED BY <1>1, <2>1, <2>3, Kept_Settled
<1> QED BY <1>1, Read_Kept

\* Every step keeps what frames in flight compose from its client.
LEMMA ReadInv_Next ==
    TypeOK /\ FramesInv /\ PlaceInv /\ ReadInv /\ [Next]_vars => ReadInv'
<1> SUFFICES ASSUME TypeOK, FramesInv, PlaceInv, ReadInv, [Next]_vars PROVE ReadInv'
  OBVIOUS
<1>1. ASSUME UNCHANGED <<clients, displayed, presenting, registry, deferred,
                         inflight, reads, drawn, phase, list, todo>>
      PROVE  ReadInv'
  <2>1. \A o, s, b : Kept(o, s, b) => Kept(o, s, b)'
    BY <1>1 DEF Kept, Registered
  <2>2. \A c \in Clients : clients[c] # "new" =>
            clients'[c] # "new" /\ (Connected(c)' => Connected(c))
    BY <1>1 DEF Connected
  <2> QED BY <1>1, <2>1, <2>2, Read_Scene
<1>2. ASSUME NEW given, UNCHANGED <<clients, inflight, reads, drawn, phase, list, todo>>,
             \A b \in Buffers : b \in given /\ Own(b) => b \in free,
             \A b \in Buffers : PlaceOf(b) /\ b \notin given => Settled(inflight, given, b)
      PROVE  ReadInv'
  <2>1. ReadsStay
    BY <1>2 DEF ReadsStay, ReadInv, Connected
  <2>2. inflight = inflight'
    BY <1>2
  <2> QED BY <1>2, <2>1, <2>2, Read_LetGo
<1>3. ASSUME NEW o \in Outputs, NEW asked \in SUBSET Surfaces, NEW out \in SUBSET Surfaces,
             NEW drain, EndFrameOn(o, asked, out, drain),
             phase' = "compose" => phase = "compose" /\ list' = list /\ todo' \subseteq todo
      PROVE  ReadInv'
  <2>1. /\ UNCHANGED clients /\ inflight' = inflight \ {o}
        /\ reads' = [reads EXCEPT ![o] = {}] /\ drawn' = [drawn EXCEPT ![o] = {}]
    BY <1>3 DEF EndFrameOn
  <2>2. ReadsStay
    <3>1. \A q \in Outputs : \/ reads'[q] = {} /\ drawn'[q] = {}
                             \/ q \in inflight' /\ reads'[q] = reads[q] /\ drawn'[q] = drawn[q]
      BY <2>1 DEF TypeOK, ReadInv
    <3> QED BY <1>3, <2>1, <3>1 DEF ReadsStay, Connected
  <2>3. \A b \in Buffers : PlaceOf(b) => Settled(inflight', {}, b)
    BY <1>3, Settles_End
  <2>4. PICK F : F = inflight' /\ \A b \in Buffers : PlaceOf(b) /\ b \notin {} => Settled(F, {}, b)
    BY <2>3
  <2>5. \A b \in Buffers : b \in {} /\ Own(b) => b \in free
    OBVIOUS
  <2> QED BY <2>2, <2>4, <2>5, Read_LetGo
<1>4. ASSUME NEW asked \in SUBSET Surfaces, NEW out \in SUBSET Surfaces, NEW drain,
             LeaveAndAsk(asked, out), Release(LetGo(asked, out), inflight, {}, drain),
             UNCHANGED <<clients, nodes, frameVars>>,
             phase' # "compose" /\ phase # "compose"
      PROVE  ReadInv'
  <2>1. \A b \in Buffers : PlaceOf(b) /\ b \notin {} => Settled(inflight, {}, b)
    BY <1>4, Settles_Leave
  <2>2. ReadsStay
    BY <1>4 DEF ReadsStay, ReadInv, frameVars, Connected
  <2>3. inflight = inflight' /\ \A b \in Buffers : b \in {} /\ Own(b) => b \in free
    BY <1>4 DEF frameVars
  <2> QED BY <2>1, <2>2, <2>3, Read_LetGo
<1>5. CASE Requests
  <2>1. ASSUME NEW c \in Clients, Connect(c) PROVE ReadInv'
    <3>1. /\ UNCHANGED <<slots, bufVars, frameVars, turnVars>> /\ clients[c] = "new"
          /\ clients' = [clients EXCEPT ![c] = "connected"]
      BY <2>1 DEF Connect
    <3>2. UNCHANGED <<displayed, presenting, registry, deferred, inflight, reads, drawn, phase,
                      list, todo>>
      BY <3>1 DEF slots, bufVars, frameVars, turnVars
    <3>3. \A o, s, b : Kept(o, s, b) => Kept(o, s, b)'
      BY <3>2 DEF Kept, Registered
    <3>4. \A e \in Clients : clients[e] # "new" =>
              clients'[e] # "new" /\ (Connected(e)' => Connected(e))
      BY <3>1 DEF TypeOK, Connected
    <3> QED BY <3>2, <3>3, <3>4, Read_Scene
  <2>2. ASSUME NEW s \in Surfaces, NEW p \in OrNone(Surfaces), NEW o \in Outputs, NEW sp \in Spans,
               CreateSurface(s, p, o, sp)
        PROVE  ReadInv'
    <3>1. UNCHANGED <<clients, slots, bufVars, frameVars, turnVars>>
      BY <2>2 DEF CreateSurface
    <3> QED BY <1>1, <3>1 DEF slots, bufVars, frameVars, turnVars
  <2>3. CASE OtherRequest
    <3>1. UNCHANGED <<clients, slots, registry, deferred, frameVars, turnVars>>
      BY <2>3 DEF OtherRequest
    <3> QED BY <1>1, <3>1 DEF slots, frameVars, turnVars
  <2>4. ASSUME NEW c \in Clients, Disconnect(c) PROVE ReadInv'
    <3> DEFINE mine == {s \in nodes : ClientOf[s] = c}
    <3>1. /\ clients' = [clients EXCEPT ![c] = "gone"] /\ TakeAll(mine)
          /\ deferred \subseteq deferred' /\ UNCHANGED <<frameVars, turnVars>>
          /\ registry' = [b \in Buffers |-> IF ClientOf[b] = c THEN "none" ELSE registry[b]]
      BY <2>4 DEF Disconnect
    <3>2. UNCHANGED <<inflight, reads, drawn, phase, list, todo>>
      BY <3>1 DEF frameVars, turnVars
    <3>3. \A e \in Clients : clients[e] # "new" =>
              clients'[e] # "new" /\ (Connected(e)' => Connected(e))
      BY <3>1 DEF TypeOK, Connected
    <3>4. ASSUME NEW o \in Outputs, NEW s \in Surfaces, NEW b \in Buffers,
                 Connected(ClientOf[b])', Kept(o, s, b)
          PROVE  Kept(o, s, b)'
      <4>1. ClientOf[b] # c
        BY <3>1, <3>4 DEF TypeOK, Connected
      <4>2. Registered(b)'
        BY <3>1, <3>4, <4>1 DEF Kept, Registered
      <4>3. b # None /\ PlaceOf(b)
        BY DEF PlaceInv
      <4>4. CASE displayed[s] = b \/ presenting[s] = b
        <5>1. s \notin mine
          BY <4>1, <4>3, <4>4 DEF PlaceOf, Held
        <5>2. displayed'[s] = displayed[s] /\ presenting'[s] = presenting[s]
          BY <3>1, <5>1 DEF TakeAll, Emptied
        <5> QED BY <4>2, <4>4, <5>2 DEF Kept
      <4>5. CASE \E d \in deferred : d.surface = s /\ d.buffer = b /\ o \in d.frames
        BY <3>1, <4>2, <4>5 DEF Kept
      <4> QED BY <3>4, <4>4, <4>5 DEF Kept
    <3> QED BY <3>2, <3>3, <3>4, Read_Scene
  <2>5. ASSUME NEW s \in Surfaces, Destroy(s) PROVE ReadInv'
    <3>1. UNCHANGED <<clients, frameVars, turnVars>>
      BY <2>5 DEF Destroy
    <3>2. \A b \in Buffers : PlaceOf(b) /\ b \notin {} => Settled(inflight, {}, b)
      BY <2>5, Settles_Destroy
    <3>3. \A b \in Buffers : b \in {} /\ Own(b) => b \in free
      OBVIOUS
    <3> QED BY <1>2, <3>1, <3>2, <3>3 DEF frameVars, turnVars
  <2>6. ASSUME NEW s \in Surfaces, NEW x \in Buffers, Submit(s, x) PROVE ReadInv'
    <3>1. UNCHANGED <<clients, frameVars, turnVars>> /\ (Own(x) => x \in free)
      BY <2>6 DEF Submit, MaySubmit, Own
    <3>2. \A b \in Buffers : PlaceOf(b) /\ b \notin {x} => Settled(inflight, {x}, b)
      BY <2>6, Settles_Submit
    <3>3. \A b \in Buffers : b \in {x} /\ Own(b) => b \in free
      BY <3>1
    <3> QED BY <1>2, <3>1, <3>2, <3>3 DEF frameVars, turnVars
  <2>7. ASSUME NEW s \in Surfaces, NEW x \in Buffers, SubmitDiscarded(s, x) PROVE ReadInv'
    <3>1. UNCHANGED <<clients, frameVars, turnVars>> /\ (Own(x) => x \in free)
      BY <2>7 DEF SubmitDiscarded, MaySubmit, Own
    <3>2. \A b \in Buffers : PlaceOf(b) /\ b \notin {x} => Settled(inflight, {x}, b)
      BY <2>7, Settles_Discarded
    <3>3. \A b \in Buffers : b \in {x} /\ Own(b) => b \in free
      BY <3>1
    <3> QED BY <1>2, <3>1, <3>2, <3>3 DEF frameVars, turnVars
  <2>8. ASSUME NEW x \in Buffers,
               DestroyBuffer(x) \/ \E gpu \in BOOLEAN : Attach(x, gpu)
        PROVE  ReadInv'
    <3>1. UNCHANGED <<clients, nodeVars, slots, deferred, frameVars, turnVars>>
      BY <2>8 DEF DestroyBuffer, Attach
    <3>2. UNCHANGED <<clients, nodes, displayed, presenting, deferred, inflight, reads, drawn,
                      phase, list, todo>>
      BY <3>1 DEF nodeVars, slots, frameVars, turnVars
    <3>3. ASSUME NEW o \in Outputs, NEW s \in Surfaces, NEW b \in Buffers, Own(b), Kept(o, s, b)
          PROVE  Kept(o, s, b)'
      <4>1. b # x => registry'[b] = registry[b]
        BY <2>8 DEF DestroyBuffer, Attach, TypeOK
      <4>2. b = x => Registered(b)'
        <5>1. CASE DestroyBuffer(x)
          <6>1. b \in HeldBy(nodes) \cup DeferredBuffers
            <7>1. PlaceOf(b) /\ b # None
              BY DEF PlaceInv
            <7> QED BY <3>3, <7>1 DEF Kept, PlaceOf, Held, HeldBy, DeferredBuffers
          <6> QED BY <5>1, <6>1 DEF DestroyBuffer, Registered, TypeOK
        <5>2. CASE \E gpu \in BOOLEAN : Attach(x, gpu)
          BY <5>2 DEF Attach, Registered, TypeOK
        <5> QED BY <2>8, <5>1, <5>2
      <4>3. Registered(b)'
        BY <3>3, <4>1, <4>2 DEF Kept, Registered
      <4> QED BY <3>2, <3>3, <4>3, Kept_Same
    <3>4. \A c \in Clients : clients[c] # "new" =>
              clients'[c] # "new" /\ (Connected(c)' => Connected(c))
      BY <3>2 DEF Connected
    <3> QED BY <3>2, <3>3, <3>4, Read_Scene
  <2> QED BY <1>5, <2>1, <2>2, <2>3, <2>4, <2>5, <2>6, <2>7, <2>8 DEF Requests
<1>6. CASE Policy
  <2>1. ASSUME NEW s \in Surfaces, Dismiss(s) PROVE ReadInv'
    <3>1. {} \in SUBSET Surfaces /\ {s} \in SUBSET Surfaces
      OBVIOUS
    <3>2. /\ LeaveAndAsk({}, {s}) /\ Release(LetGo({}, {s}), inflight, {}, FALSE)
          /\ UNCHANGED <<clients, nodes, frameVars>> /\ phase' # "compose" /\ phase # "compose"
      BY <2>1 DEF Dismiss, turnVars, Idle
    <3> QED BY <1>4, <3>1, <3>2
  <2>2. ASSUME NEW s \in Surfaces, NEW asked \in SUBSET Surfaces, NEW out \in SUBSET Surfaces,
               NEW at \in Outputs, NEW sp \in Spans, Rearrange(s, asked, out, at, sp)
        PROVE  ReadInv'
    <3>1. /\ LeaveAndAsk(asked, out) /\ Release(LetGo(asked, out), inflight, {}, FALSE)
          /\ UNCHANGED <<clients, nodes, frameVars>> /\ phase' # "compose" /\ phase # "compose"
      BY <2>2 DEF Rearrange, turnVars, Idle
    <3> QED BY <1>4, <3>1
  <2> QED BY <1>6, <2>1, <2>2 DEF Policy
<1>7. CASE StartFrame
  <2>1. UNCHANGED <<clients, slots, bufVars, frameVars>> /\ phase' = "begin"
    BY <1>7 DEF StartFrame
  <2>2. UNCHANGED <<clients, displayed, presenting, registry, deferred, inflight, reads, drawn>>
    BY <2>1 DEF slots, bufVars, frameVars
  <2>3. \A o, s, b : Kept(o, s, b) => Kept(o, s, b)'
    BY <2>2 DEF Kept, Registered
  <2>4. ReadsStay
    BY <2>1, <2>2 DEF ReadsStay, ReadInv, Connected
  <2> QED BY <2>3, <2>4, Read_Kept
<1>8. CASE TakeFrameList
  <2>1. /\ UNCHANGED <<clients, slots, bufVars, frameVars>>
        /\ list' = {<<s, View(s)>> : s \in {t \in nodes : Visible(t)}}
    BY <1>8 DEF TakeFrameList
  <2>2. UNCHANGED <<clients, displayed, presenting, registry, deferred, inflight, reads, drawn>>
    BY <2>1 DEF slots, bufVars, frameVars
  <2>3. \A o, s, b : Reads(o, s, b) => Reads(o, s, b)'
    BY <2>2 DEF Reads, Kept, Registered, Connected
  <2>4. ASSUME NEW o \in Outputs, NEW s \in Surfaces, NEW b \in Buffers, <<s, b>> \in list'
        PROVE  Reads(o, s, b)
    <3>1. b = View(s) /\ b # None /\ PlaceOf(b)
      BY <2>1, <2>4 DEF PlaceInv
    <3>2. displayed[s] = b \/ presenting[s] = b
      BY <3>1 DEF View
    <3>3. b \in Held(s)
      BY <3>1, <3>2 DEF Held
    <3> QED BY <3>1, <3>2, <3>3 DEF Reads, Kept, PlaceOf
  <2>5. \A o \in todo' : o \in Outputs
    BY <1>8 DEF TakeFrameList, Ready, TypeOK
  <2> QED BY <2>2, <2>3, <2>4, <2>5 DEF ReadInv
<1>9. ASSUME NEW o \in Outputs, NEW sp \in [Surfaces -> Spans], BeginFrameOn(o, sp) PROVE ReadInv'
  <2>1. /\ UNCHANGED <<clients, displayed, registry, deferred, drawn, phase>>
        /\ presenting' = [s \in Surfaces |-> IF s \in Starting(o) THEN queued[s] ELSE presenting[s]]
        /\ reads' = [reads EXCEPT ![o] = ReadBy(o)] /\ inflight' = inflight \cup {o}
        /\ phase = "begin" /\ o \in todo
    BY <1>9 DEF BeginFrameOn, bufVars
  <2>2. o \notin inflight
    BY <2>1 DEF FramesInv, Begun, Ready
  <2>3. drawn[o] = {}
    BY <2>2 DEF ReadInv
  <2>4. ASSUME NEW q \in Outputs, NEW s \in Surfaces, NEW b \in Buffers, Kept(q, s, b)
        PROVE  Kept(q, s, b)'
    <3>1. presenting[s] = b => presenting'[s] = b
      <4>1. b # None
        OBVIOUS
      <4> QED BY <2>1, <4>1 DEF Starting
    <3> QED BY <2>1, <2>4, <3>1 DEF Kept, Registered
  <2>5. ASSUME NEW q \in Outputs, NEW s \in Surfaces, NEW b \in Buffers, <<s, b>> \in drawn[q]
        PROVE  Reads(q, s, b)'
    <3>1. q # o /\ Reads(q, s, b)
      BY <2>3, <2>5 DEF ReadInv
    <3>2. reads'[q] = reads[q]
      BY <2>1, <3>1 DEF TypeOK
    <3> QED BY <2>1, <2>4, <3>1, <3>2 DEF Reads, Connected, Own
  <2>6. \A q \in Outputs : q \notin inflight' => reads'[q] = {} /\ drawn[q] = {}
    BY <2>1 DEF ReadInv, TypeOK
  <2> QED BY <2>1, <2>5, <2>6 DEF ReadInv
<1>10. ASSUME NEW o \in Outputs, ComposeAndFlip(o) PROVE ReadInv'
  <2>1. /\ UNCHANGED <<clients, slots, bufVars, inflight, reads>>
        /\ drawn' = [drawn EXCEPT ![o] = {p \in list : o \in span[p[1]]}]
        /\ phase = "compose" /\ o \in todo /\ todo' = todo \ {o}
        /\ phase' = "compose" => list' = list
    BY <1>10 DEF ComposeAndFlip, NextScreen
  <2>2. UNCHANGED <<clients, displayed, presenting, registry, deferred, inflight, reads>>
    BY <2>1 DEF slots, bufVars
  <2>3. \A q, s, b : Reads(q, s, b) => Reads(q, s, b)'
    BY <2>2 DEF Reads, Kept, Registered, Connected
  <2>4. o \in inflight
    BY <2>1 DEF FramesInv, Begun
  <2>5. \A q \in Outputs : q \notin inflight' => reads'[q] = {} /\ drawn'[q] = {}
    BY <2>1, <2>2, <2>4 DEF ReadInv, TypeOK
  <2>6. ASSUME NEW q \in Outputs, NEW s \in Surfaces, NEW b \in Buffers, <<s, b>> \in drawn'[q]
        PROVE  Reads(q, s, b)
    <3>1. CASE q = o
      <4>1. <<s, b>> \in list
        BY <2>1, <2>6, <3>1 DEF TypeOK
      <4> QED BY <2>1, <3>1, <4>1 DEF ReadInv
    <3>2. CASE q # o
      <4>1. drawn'[q] = drawn[q]
        BY <2>1, <3>2 DEF TypeOK
      <4> QED BY <2>6, <4>1 DEF ReadInv
    <3> QED BY <3>1, <3>2
  <2>7. phase' = "compose" =>
            \A q \in todo', s \in Surfaces, b \in Buffers : <<s, b>> \in list' => Reads(q, s, b)
    BY <2>1 DEF ReadInv
  <2> QED BY <2>3, <2>5, <2>6, <2>7 DEF ReadInv
<1>11. ASSUME NEW o \in Outputs, NEW asked \in SUBSET Surfaces, NEW out \in SUBSET Surfaces,
              \/ \E flip \in {"none", "pointer"} : ComposeNothing(o, asked, out, flip)
              \/ ComposeAtOnce(o, asked, out)
              \/ CompleteFlip(o, asked, out)
       PROVE  ReadInv'
  <2>1. PICK drain : EndFrameOn(o, asked, out, drain)
    BY <1>11 DEF ComposeNothing, ComposeAtOnce, CompleteFlip
  <2>2. phase' = "compose" => phase = "compose" /\ list' = list /\ todo' \subseteq todo
    BY <1>11 DEF ComposeNothing, ComposeAtOnce, CompleteFlip, NextScreen, turnVars
  <2> QED BY <1>3, <2>1, <2>2
<1>12. ASSUME NEW o \in Outputs, CompletePointerFlip(o) PROVE ReadInv'
  <2>1. UNCHANGED <<clients, slots, bufVars, inflight, reads, drawn, turnVars>>
    BY <1>12 DEF CompletePointerFlip
  <2> QED BY <1>1, <2>1 DEF slots, bufVars, turnVars
<1>13. CASE Hotplug
  <2>1. ASSUME NEW o \in Outputs, NEW asked \in SUBSET Surfaces, NEW out \in SUBSET Surfaces,
               DetachDisplay(o, asked, out)
        PROVE  ReadInv'
    <3>1. CASE EndFrameOn(o, asked, out, TRUE)
      <4>1. phase' = "unplug"
        BY <2>1 DEF DetachDisplay
      <4> QED BY <1>3, <3>1, <4>1
    <3>2. CASE ~EndFrameOn(o, asked, out, TRUE)
      <4>1. UNCHANGED <<clients, slots, registry, deferred, inflight, reads, drawn>>
            /\ phase' = "unplug"
        BY <2>1, <3>2 DEF DetachDisplay
      <4>2. \A q, s, b : Kept(q, s, b) => Kept(q, s, b)'
        BY <4>1 DEF Kept, Registered, slots
      <4>3. ReadsStay
        BY <4>1 DEF ReadsStay, ReadInv, Connected
      <4> QED BY <4>2, <4>3, Read_Kept
    <3> QED BY <3>1, <3>2
  <2>2. ASSUME NEW o \in Outputs, NEW target, NEW asked \in SUBSET Surfaces,
               NEW out \in SUBSET Surfaces, RemoveOutput(o, target, asked, out)
        PROVE  ReadInv'
    <3>1. /\ LeaveAndAsk(asked, out) /\ Release(LetGo(asked, out), inflight, {}, TRUE)
          /\ UNCHANGED <<clients, nodes, frameVars>> /\ phase' # "compose" /\ phase # "compose"
      BY <2>2 DEF RemoveOutput
    <3> QED BY <1>4, <3>1
  <2>3. ASSUME NEW o \in Outputs, AddOutput(o) PROVE ReadInv'
    <3>1. PICK orphans \in SUBSET Surfaces :
            /\ UNCHANGED <<clients, nodes, frameVars>> /\ LeaveAndAsk(orphans, {})
            /\ Release(LetGo(orphans, {}), inflight, {}, FALSE)
      <4>1. nodes \subseteq Surfaces
        BY DEF TypeOK
      <4> QED BY <2>3, <4>1 DEF AddOutput
    <3>2. {} \in SUBSET Surfaces /\ phase' # "compose" /\ phase # "compose"
      BY <2>3 DEF AddOutput, turnVars, Idle
    <3> QED BY <1>4, <3>1, <3>2
  <2> QED BY <1>13, <2>1, <2>2, <2>3 DEF Hotplug
<1>14. CASE UNCHANGED vars
  BY <1>1, <1>14 DEF vars, slots, bufVars, frameVars, turnVars
<1> QED BY <1>5, <1>6, <1>7, <1>8, <1>9, <1>10, <1>11, <1>12, <1>13, <1>14 DEF Next, Turn, Flip

\* What frames in flight read, for every behaviour of the scene.
LEMMA SceneFrames_ReadInv == Spec => [](TypeOK /\ FramesInv /\ PlaceInv /\ ReadInv)
BY TypeOK_Init, TypeOK_Next, FramesInv_Init, FramesInv_Next, PlaceInv_Init, PlaceInv_Next,
   ReadInv_Init, ReadInv_Next, PTL DEF Spec

\* What is kept for a frame is neither free nor forgotten.
LEMMA Read_BuffersKept == TypeOK /\ PlaceInv /\ ReadInv => ReadBuffersKept
<1> SUFFICES ASSUME TypeOK, PlaceInv, ReadInv, NEW o \in Outputs, NEW p \in drawn[o],
                    ClientOf[p[2]] \in Careful, Connected(ClientOf[p[2]]), p[1] \in reads[o]
             PROVE  p[2] \notin free /\ p[2] \in stored
  BY DEF ReadBuffersKept
<1>1. PICK s \in Surfaces, b \in Buffers : p = <<s, b>>
  BY DEF TypeOK
<1>2. p[1] = s /\ p[2] = b
  BY <1>1
<1>3. Own(b) /\ Kept(o, s, b) /\ PlaceOf(b) /\ b # None
  BY <1>1, <1>2 DEF ReadInv, Reads, Own, PlaceInv
<1>4. ~Nowhere(b)
  BY <1>3 DEF Kept, Nowhere, Held, DeferredBuffers
<1> QED BY <1>2, <1>3, <1>4 DEF PlaceOf, Kept

\* For any screens, surfaces and clients, what a frame on its way composes of the
\* surfaces the scene counted as read stays out of its client's hands, and in memory,
\* until the flip (Scene::begin, release, end, Compositor::retire).
THEOREM SceneFrames_ReadBuffersKept == Spec => []ReadBuffersKept
BY SceneFrames_ReadInv, Read_BuffersKept, PTL

-----------------------------------------------------------------------------
(* One screen.                                                               *)

\* What the only screen's frame composes is what it was begun for.
OneScreenInv(o) ==
    /\ phase = "begin" /\ o \notin todo =>
           \A s \in nodes : Visible(s) /\ o \in span[s] => s \in reads[o]
    /\ phase = "compose" => \A p \in list : o \in span[p[1]] => p[1] \in reads[o]
    /\ \A p \in drawn[o] : p[1] \in reads[o]

\* With one screen nothing comes between a frame's begin and the list it composes.
LEMMA OneScreen_Next ==
    ASSUME NEW o, Outputs = {o}, TypeOK, FramesInv, ReadInv, OneScreenInv(o), [Next]_vars
    PROVE  OneScreenInv(o)'
<1>0. o \in Outputs
  OBVIOUS
<1> USE DEF OneScreenInv
<1>1. ASSUME phase' \in {"idle", "unplug"},
             (reads'[o] = {} /\ drawn'[o] = {}) \/ UNCHANGED <<reads, drawn>>
      PROVE  OneScreenInv(o)'
  BY <1>1
<1>2. CASE Requests \/ Policy \/ \E q \in Outputs : AddOutput(q) \/ CompletePointerFlip(q)
  <2>1. CASE Requests \/ Policy \/ \E q \in Outputs : AddOutput(q)
    <3>1. phase = "idle"
      <4>1. CASE Requests
        <5>1. Idle
          BY <4>1 DEF Requests, Connect, Disconnect, CreateSurface, Destroy, Submit, MaySubmit,
             SubmitDiscarded, Attach, DestroyBuffer, OtherRequest
        <5> QED BY <5>1 DEF Idle
      <4>2. CASE Policy \/ \E q \in Outputs : AddOutput(q)
        BY <4>2 DEF Policy, Dismiss, Rearrange, AddOutput, Idle
      <4> QED BY <2>1, <4>1, <4>2
    <3>2. UNCHANGED <<frameVars, turnVars>>
      BY <2>1 DEF Requests, Policy, Connect, Disconnect, CreateSurface, Destroy, Submit,
         SubmitDiscarded, Attach, DestroyBuffer, OtherRequest, Dismiss, Rearrange, AddOutput
    <3> QED BY <1>1, <3>1, <3>2 DEF frameVars, turnVars
  <2>2. CASE \E q \in Outputs : CompletePointerFlip(q)
    <3>1. phase = "idle" /\ UNCHANGED <<reads, drawn, turnVars>>
      BY <2>2 DEF CompletePointerFlip, Idle
    <3> QED BY <1>1, <3>1 DEF turnVars
  <2> QED BY <1>2, <2>1, <2>2
<1>3. ASSUME NEW q \in Outputs, NEW asked, NEW out, NEW drain, EndFrameOn(q, asked, out, drain)
      PROVE  reads'[o] = {} /\ drawn'[o] = {}
  BY <1>0, <1>3 DEF EndFrameOn, TypeOK
<1>4. ASSUME NEW q \in Outputs, NEW asked, NEW out,
             CompleteFlip(q, asked, out) \/ DetachDisplay(q, asked, out)
      PROVE  OneScreenInv(o)'
  <2>1. phase' \in {"idle", "unplug"}
    BY <1>4 DEF CompleteFlip, DetachDisplay, Idle, turnVars
  <2>2. EndFrameOn(q, asked, out, TRUE) \/ UNCHANGED <<reads, drawn>>
    BY <1>4 DEF CompleteFlip, DetachDisplay
  <2> QED BY <1>1, <1>3, <2>1, <2>2
<1>5. ASSUME NEW q \in Outputs, NEW target, NEW asked, NEW out, RemoveOutput(q, target, asked, out)
      PROVE  OneScreenInv(o)'
  <2>1. phase' = "idle" /\ UNCHANGED <<reads, drawn>>
    BY <1>5 DEF RemoveOutput, frameVars
  <2> QED BY <1>1, <2>1
<1>6. ASSUME NEW q \in Outputs, NEW asked, NEW out,
             \/ \E flip \in {"none", "pointer"} : ComposeNothing(q, asked, out, flip)
             \/ ComposeAtOnce(q, asked, out)
      PROVE  OneScreenInv(o)'
  <2>1. q \in todo /\ phase' = IF todo = {q} THEN "idle" ELSE "compose"
    BY <1>6 DEF ComposeNothing, ComposeAtOnce, NextScreen
  <2>2. phase' = "idle"
    BY <2>1 DEF TypeOK
  <2>3. PICK drain : EndFrameOn(q, asked, out, drain)
    BY <1>6 DEF ComposeNothing, ComposeAtOnce
  <2> QED BY <1>1, <1>3, <2>2, <2>3
<1>7. CASE StartFrame
  <2>1. phase' = "begin" /\ todo' = Ready /\ Ready # {} /\ UNCHANGED <<reads, drawn>>
    BY <1>7 DEF StartFrame, frameVars
  <2>2. Ready \subseteq {o}
    BY DEF Ready, TypeOK
  <2> QED BY <2>1, <2>2
<1>8. ASSUME NEW q \in Outputs, NEW sp \in [Surfaces -> Spans], BeginFrameOn(q, sp)
      PROVE  OneScreenInv(o)'
  <2>1. /\ UNCHANGED <<nodes, drawn, phase>> /\ reads' = [reads EXCEPT ![q] = ReadBy(q)]
        /\ phase = "begin" /\ q \in todo /\ q = o
    BY <1>8 DEF BeginFrameOn
  <2>2. reads'[o] = {s \in nodes : Visible(s)' /\ o \in span'[s]}
    BY <2>1 DEF TypeOK, ReadBy
  <2>3. drawn[o] = {}
    BY <2>1 DEF FramesInv, Begun, Ready, ReadInv
  <2> QED BY <2>1, <2>2, <2>3
<1>9. CASE TakeFrameList
  <2>1. /\ UNCHANGED <<nodeVars, frameVars>> /\ phase = "begin" /\ todo = {} /\ phase' = "compose"
        /\ list' = {<<s, View(s)>> : s \in {t \in nodes : Visible(t)}}
    BY <1>9 DEF TakeFrameList
  <2>2. UNCHANGED <<span, reads, drawn>>
    BY <2>1 DEF nodeVars, frameVars
  <2>3. ASSUME NEW p \in list', o \in span[p[1]] PROVE p[1] \in reads[o]
    <3>1. PICK s \in nodes : Visible(s) /\ p = <<s, View(s)>>
      BY <2>1
    <3>2. p[1] = s
      BY <3>1
    <3> QED BY <2>1, <2>3, <3>1, <3>2
  <2> QED BY <2>1, <2>2, <2>3
<1>10. ASSUME NEW q \in Outputs, ComposeAndFlip(q) PROVE OneScreenInv(o)'
  <2>1. /\ UNCHANGED <<nodeVars, reads>> /\ phase = "compose" /\ q \in todo /\ q = o
        /\ drawn' = [drawn EXCEPT ![q] = {p \in list : q \in span[p[1]]}]
        /\ phase' = IF todo = {q} THEN "idle" ELSE "compose"
    BY <1>10 DEF ComposeAndFlip, NextScreen
  <2>2. drawn'[o] = {p \in list : o \in span[p[1]]} /\ phase' = "idle"
    BY <2>1 DEF TypeOK
  <2> QED BY <2>1, <2>2
<1>11. CASE UNCHANGED vars
  <2>1. UNCHANGED <<nodes, above, dismissed, displayed, presenting, span, reads, drawn, list,
                    phase, todo>>
    BY <1>11 DEF vars, nodeVars, slots, frameVars, turnVars
  <2> QED BY <2>1 DEF Visible, View
<1> QED BY <1>2, <1>4, <1>5, <1>6, <1>7, <1>8, <1>9, <1>10, <1>11 DEF Next, Turn, Flip, Hotplug

\* On one screen, where every client keeps to the protocol, the scene keeps what it
\* promises of buffers: one place each, out of the client's hands and in memory while
\* any frame on its way composes them (Scene.frames_in_flight, deferred, retired).
THEOREM SceneFrames_BuffersKept ==
    ASSUME Careful = Clients, NEW o, Outputs = {o}
    PROVE  Spec => []BuffersKept
<1>1. Init => OneScreenInv(o)
  BY DEF Init, OneScreenInv
<1>2. TypeOK /\ FramesInv /\ ReadInv /\ OneScreenInv(o) /\ [Next]_vars => OneScreenInv(o)'
  BY OneScreen_Next
<1>3. Spec => []OneScreenInv(o)
  BY <1>1, <1>2, SceneFrames_ReadInv, PTL DEF Spec
<1>4. ReadBuffersKept /\ OneScreenInv(o) => DrawnBuffersKept
  BY DEF ReadBuffersKept, OneScreenInv, DrawnBuffersKept
<1> QED BY <1>3, <1>4, SceneFrames_BufferInOnePlace, SceneFrames_ReadBuffersKept,
        SceneFrames_RegisteredHasMemory, PTL DEF BuffersKept
=============================================================================
