-------------------------- MODULE PresentationProofs --------------------------
(***************************************************************************)
(* Proofs about one surface's presentation state, for any set of buffers,  *)
(* extents, serials and sequences.                                         *)
(***************************************************************************)
EXTENDS Presentation, TLAPS

\* A frame presenting was drawn for a configure already sent; if that is still the
\* one in force, for its extent.
PresentingWasCurrent ==
    presenting # None => /\ presenting.configure <= serial
                         /\ presenting.configure = serial => presenting.extent = extent

\* QueuedIsCurrent alone is not inductive: retry_present queues the frame that was
\* presenting, which is current only because serials grow with each configure.
IInv == TypeOK /\ HeldInOrder /\ QueuedIsCurrent /\ PresentingWasCurrent

USE BoundsAssumption, NoneAssumption, ValidAssumption

\* What no call can change by being refused.
LEMMA RefusedKeeps ==
    ASSUME IInv, NEW e \in Errors, Refuse(e)
    PROVE  IInv'
BY DEF IInv, TypeOK, HeldInOrder, QueuedIsCurrent, PresentingWasCurrent, Refuse, Held, Before,
       Errors

\* A buffer that submit finds free is in no frame held, and the frame's sequence
\* is past all of theirs.
LEMMA SubmitChecks ==
    ASSUME IInv, NEW f \in Frames, SubmitError(f) = None
    PROVE  /\ f.configure = serial /\ f.extent = extent
           /\ f.sequence > last_sequence /\ f.sequence # 0
           /\ \A h \in Held : h.buffer # f.buffer
<1>1. None \notin Errors
  OBVIOUS
<1> QED
  BY <1>1 DEF IInv, TypeOK, SubmitError, Frames, Errors

\* submit answers one of its errors, or none.
LEMMA SubmitError_Type ==
    ASSUME NEW f \in Frames
    PROVE  SubmitError(f) \in Errors \cup {None}
BY DEF SubmitError, Errors

\* The invariant holds at first and is kept by every call.
LEMMA IInv_Init == Init => IInv
BY DEF Init, IInv, TypeOK, HeldInOrder, QueuedIsCurrent,
       PresentingWasCurrent, Held, Before, Frames

\* Every operation of Presentation keeps the invariant.
LEMMA IInv_Next == IInv /\ [Next]_vars => IInv'
<1> SUFFICES ASSUME IInv, [Next]_vars PROVE IInv'
  OBVIOUS
<1> USE DEF IInv
<1>1. ASSUME NEW e \in Extents, Configure(e) PROVE IInv'
  <2>1. CASE e \notin Valid \/ serial = MaxSerial
    BY <1>1, <2>1, RefusedKeeps DEF Configure, Errors
  <2>2. CASE e \in Valid /\ serial # MaxSerial
    BY <1>1, <2>2 DEF Configure, Give, TypeOK, HeldInOrder, QueuedIsCurrent,
       PresentingWasCurrent, Held, Before, Frames
  <2> QED BY <2>1, <2>2
<1>2. ASSUME NEW f \in Frames, Submit(f) PROVE IInv'
  <2>1. CASE SubmitError(f) # None
    BY <1>2, <2>1, RefusedKeeps, SubmitError_Type DEF Submit
  <2>2. CASE SubmitError(f) = None
    <3>1. /\ last_sequence' = f.sequence /\ queued' = f
          /\ returned' = [frames |-> {queued} \ {None}, error |-> None]
          /\ UNCHANGED <<serial, extent, displayed, presenting>>
      BY <1>2, <2>2 DEF Submit, Give
    <3>2. /\ f.configure = serial /\ f.extent = extent
          /\ f.sequence > last_sequence /\ f.sequence # 0
          /\ \A h \in Held : h.buffer # f.buffer
      BY <2>2, SubmitChecks
    <3>3. TypeOK'
      BY <3>1, <3>2 DEF TypeOK, Frames
    <3>4. HeldInOrder'
      BY <3>1, <3>2 DEF TypeOK, HeldInOrder, Held, Before, Frames
    <3>5. QueuedIsCurrent' /\ PresentingWasCurrent'
      BY <3>1, <3>2 DEF QueuedIsCurrent, PresentingWasCurrent
    <3> QED BY <3>3, <3>4, <3>5
  <2> QED BY <2>1, <2>2
<1>3. ASSUME BeginPresent PROVE IInv'
  <2>1. CASE presenting # None
    BY <1>3, <2>1, RefusedKeeps DEF BeginPresent, Errors
  <2>2. CASE presenting = None
    BY <1>3, <2>2 DEF BeginPresent, Give, TypeOK, HeldInOrder, QueuedIsCurrent,
       PresentingWasCurrent, Held, Before, Frames
  <2> QED BY <2>1, <2>2
<1>4. ASSUME CompletePresent PROVE IInv'
  <2>1. CASE presenting = None
    BY <1>4, <2>1, RefusedKeeps DEF CompletePresent, Errors
  <2>2. CASE presenting # None
    BY <1>4, <2>2 DEF CompletePresent, Give, TypeOK, HeldInOrder, QueuedIsCurrent,
       PresentingWasCurrent, Held, Before, Frames
  <2> QED BY <2>1, <2>2
<1>5. ASSUME RetryPresent PROVE IInv'
  <2>1. CASE presenting = None
    BY <1>5, <2>1, RefusedKeeps DEF RetryPresent, Errors
  <2>2. CASE presenting # None /\ (queued # None \/ presenting.configure # serial)
    BY <1>5, <2>2 DEF RetryPresent, Give, TypeOK, HeldInOrder, QueuedIsCurrent,
       PresentingWasCurrent, Held, Before, Frames
  <2>3. CASE presenting # None /\ queued = None /\ presenting.configure = serial
    BY <1>5, <2>3 DEF RetryPresent, Give, TypeOK, HeldInOrder, QueuedIsCurrent,
       PresentingWasCurrent, Held, Before, Frames
  <2> QED BY <2>1, <2>2, <2>3
<1>6. ASSUME TakeAll PROVE IInv'
  BY <1>6 DEF TakeAll, Give, TypeOK, HeldInOrder, QueuedIsCurrent,
       PresentingWasCurrent, Held, Before, Frames
<1>7. ASSUME UNCHANGED vars PROVE IInv'
  BY <1>7 DEF vars, TypeOK, HeldInOrder, QueuedIsCurrent,
       PresentingWasCurrent, Held, Before, Frames
<1> QED BY <1>1, <1>2, <1>3, <1>4, <1>5, <1>6, <1>7 DEF Next

\* The types hold, the frames held are in the order they were submitted with
\* different buffers, and what is queued is for the configure in force: for every
\* order of configure, submit, begin, complete, retry and take_all.
THEOREM Presentation_Invariant == Spec => []IInv
<1>1. Init => IInv
  BY IInv_Init
<1>2. IInv /\ [Next]_vars => IInv'
  BY IInv_Next
<1> QED BY <1>1, <1>2, PTL DEF Spec

\* The serial stops at its largest and every frame held is well formed, whatever
\* calls are refused.
THEOREM Presentation_TypeOK == Spec => []TypeOK
<1>1. IInv => TypeOK
  BY DEF IInv
<1> QED BY <1>1, Presentation_Invariant, PTL

\* No frame of an old size ever starts presenting.
THEOREM Presentation_QueuedIsCurrent == Spec => []QueuedIsCurrent
<1>1. IInv => QueuedIsCurrent
  BY DEF IInv
<1> QED BY <1>1, Presentation_Invariant, PTL

\* What a surface holds is in order, each frame with a buffer of its own.
THEOREM Presentation_HeldInOrder == Spec => []HeldInOrder
<1>1. IInv => HeldInOrder
  BY DEF IInv
<1> QED BY <1>1, Presentation_Invariant, PTL

\* A call hands back what leaves and nothing that stays.
HandsBack == /\ Held \subseteq Held' \cup returned'.frames
             /\ Held' \cap returned'.frames = {}

\* One operation hands back exactly what it no longer holds.
LEMMA Step_HandsBack == IInv /\ Next => HandsBack
<1> SUFFICES ASSUME IInv, Next PROVE HandsBack
  OBVIOUS
<1> USE DEF IInv, HandsBack
<1>0. ASSUME NEW e \in Errors, Refuse(e) PROVE HandsBack
  BY <1>0 DEF Refuse, Held
<1>1. ASSUME NEW e \in Extents, Configure(e) PROVE HandsBack
  BY <1>0, <1>1 DEF Configure, Errors, Give, Held, HeldInOrder, Before, TypeOK, Frames
<1>2. ASSUME NEW f \in Frames, Submit(f) PROVE HandsBack
  <2>1. CASE SubmitError(f) # None
    BY <1>0, <1>2, <2>1, SubmitError_Type DEF Submit
  <2>2. CASE SubmitError(f) = None
    <3>1. \A h \in Held : h.buffer # f.buffer
      BY <2>2, SubmitChecks
    <3> QED BY <1>2, <2>2, <3>1 DEF Submit, Give, Held, HeldInOrder, Before, TypeOK, Frames
  <2> QED BY <2>1, <2>2
<1>3. ASSUME BeginPresent PROVE HandsBack
  BY <1>0, <1>3 DEF BeginPresent, Errors, Give, Held
<1>4. ASSUME CompletePresent PROVE HandsBack
  BY <1>0, <1>4 DEF CompletePresent, Errors, Give, Held, HeldInOrder, Before, TypeOK, Frames
<1>5. ASSUME RetryPresent PROVE HandsBack
  BY <1>0, <1>5 DEF RetryPresent, Errors, Give, Held, HeldInOrder, Before, TypeOK, Frames
<1>6. ASSUME TakeAll PROVE HandsBack
  BY <1>6 DEF TakeAll, Give, Held
<1> QED BY <1>1, <1>2, <1>3, <1>4, <1>5, <1>6 DEF Next

\* No call loses a frame, or hands back one that is still held.
THEOREM Presentation_FramesHandedBack == Spec => FramesHandedBack
<1>1. IInv /\ [Next]_vars => [HandsBack]_vars
  BY Step_HandsBack
<1>2. [HandsBack]_vars =>
        [/\ Held \subseteq Held' \cup returned'.frames
         /\ Held' \cap returned'.frames = {}]_vars
  BY DEF HandsBack
<1> QED BY <1>1, <1>2, Presentation_Invariant, PTL DEF Spec, FramesHandedBack

\* What is displayed is replaced by a later frame of another buffer only.
MovesOn == displayed # displayed' => displayed' = None \/ Before(displayed, displayed')

\* One operation moves what is displayed on, never back.
LEMMA Step_MovesOn == IInv /\ Next => MovesOn
<1> SUFFICES ASSUME IInv, Next PROVE MovesOn
  OBVIOUS
<1>1. displayed' \in {displayed, presenting, None}
  BY DEF Next, Configure, Submit, BeginPresent, CompletePresent, RetryPresent, TakeAll, Refuse
<1> QED BY <1>1 DEF IInv, HeldInOrder, MovesOn, Before

\* A surface never goes back to older content.
THEOREM Presentation_DisplayedMovesOn == Spec => DisplayedMovesOn
<1>1. IInv /\ [Next]_vars => [MovesOn]_vars
  BY Step_MovesOn
<1>2. [MovesOn]_vars =>
        [displayed # displayed' => displayed' = None \/ Before(displayed, displayed')]_vars
  BY DEF MovesOn
<1> QED BY <1>1, <1>2, Presentation_Invariant, PTL DEF Spec, DisplayedMovesOn
=============================================================================
